---- MODULE Spec2Model ----
(***************************************************************************)
(* A model of api2go's request dispatcher (api.go): pagination parameter   *)
(* validation and link computation, and the per-route handlers that drive  *)
(* a CRUD backend and write an HTTP response.                              *)
(*                                                                         *)
(* Strings that the code parses or compares (the page[...] query values)   *)
(* are sequences of one-character strings, so that "1" and "01" are        *)
(* different strings with the same parsed value.                           *)
(***************************************************************************)
EXTENDS Integers, Sequences, FiniteSets, TLC

VARIABLES
    resources,   \* API.resources: the registry, in registration order
    routes,      \* API.router: the routes registered, each with its handler
    req,         \* the request being answered (NoRequest before the first)
    calls,       \* the operations invoked for req on the backend and on the
                 \* object it fetched, in call order
    w,           \* the http.ResponseWriter of req: headers, statuses written, body
    encoding,    \* the steps of encoding the response of req, with their outcome
    panicked,    \* TRUE when the handler of req ended in a runtime panic
    err,         \* the error the handler of req returned to its route closure
    selected,    \* the marshalers selected while answering req, in call order
    pc,          \* "idle", "routed" (a handler is about to run) or "done"
    httpErrs,    \* the structured errors under construction, and the last append
    args,        \* inputs of the direct calls of a function made so far
    ret,         \* what that call returned
    threads,     \* the goroutines serving requests concurrently: position, request,
                 \* the values each holds a pointer to, the calls each made
    heap         \* the values allocated by the goroutines, by address

vars == <<resources, routes, req, calls, w, encoding, panicked, err, selected, pc, httpErrs, args, ret, threads, heap>>

----------------------------------------------------------------------------
\* Bounds of the model.

\* uint64 is modelled with UintBits bits: arithmetic wraps modulo 2^UintBits.
UintBits == 4
\* page values 0..MaxVal are drawn as decimal strings (plus the edge strings).
MaxVal == 3
\* total counts returned by PaginatedFindAll range over 0..MaxCount.
MaxCount == 4
\* at most MaxAppends calls of AddHTTPError are made on the errors under construction.
MaxAppends == 4
\* Entries of the data array of a relationship POST or DELETE.
MaxEntries == 2
\* Resources registered on an API built from nothing.
MaxResources == 2

UintMod == 2 ^ UintBits
MaxUint == UintMod - 1

----------------------------------------------------------------------------
\* strconv.ParseUint(s, 10, 64) and strconv.FormatUint(v, 10).

Digits == <<"0", "1", "2", "3", "4", "5", "6", "7", "8", "9">>

IsDigit(c) == \E i \in 1..10 : Digits[i] = c

DigitVal(c) == (CHOOSE i \in 1..10 : Digits[i] = c) - 1

RECURSIVE DecimalValue(_)
DecimalValue(s) ==
    IF s = <<>> THEN 0
    ELSE 10 * DecimalValue(SubSeq(s, 1, Len(s) - 1)) + DigitVal(s[Len(s)])

\* err is "nil", "syntax" (empty or a non-digit, signs included) or "range".
ParseUint(s) ==
    IF s = <<>> \/ \E i \in 1..Len(s) : ~IsDigit(s[i])
    THEN [val |-> 0, err |-> "syntax"]
    ELSE IF DecimalValue(s) > MaxUint
         THEN [val |-> MaxUint, err |-> "range"]
         ELSE [val |-> DecimalValue(s), err |-> "nil"]

RECURSIVE FormatUint(_)
FormatUint(v) ==
    IF v < 10 THEN <<Digits[v + 1]>>
    ELSE FormatUint(v \div 10) \o <<Digits[(v % 10) + 1]>>

----------------------------------------------------------------------------
\* paginationQueryParams: the four page[...] values as url.Values.Get reads
\* them (the empty string when the key is absent).

PageKeys == {"number", "size", "offset", "limit"}

newPaginationQueryParams(query) ==
    [number |-> query.number, size |-> query.size,
     offset |-> query.offset, limit |-> query.limit]

isValidNoMixCheck(p) ==
    \/ p.number # <<>> /\ p.size # <<>>
    \/ p.offset # <<>> /\ p.limit # <<>>

isValid(p) ==
    IF p.number = <<>> /\ p.size = <<>> /\ p.offset = <<>> /\ p.limit = <<>>
    THEN FALSE
    ELSE IF p.number # <<>> /\ p.size # <<>> /\ p.offset = <<>> /\ p.limit = <<>>
    THEN TRUE
    ELSE IF p.number = <<>> /\ p.size = <<>> /\ p.offset # <<>> /\ p.limit # <<>>
    THEN TRUE
    ELSE FALSE

\* A link is the request's query with one page key rewritten (params.Set);
\* the base URL and path in front of it are the same for every link.
NoLinks == [k \in {} |-> [number |-> <<>>, size |-> <<>>, offset |-> <<>>, limit |-> <<>>]]

\* first/prev of number/size mode (api.go 101-109).
NumberFirstPrev(p, params, number) ==
    IF p.number # <<"1">>
    THEN ("first" :> [params EXCEPT !.number = <<"1">>])
         @@ ("prev" :> [params EXCEPT !.number = FormatUint((number - 1) % UintMod)])
    ELSE NoLinks

\* totalPages of number/size mode (api.go 117-121); size # 0.
TotalPages(count, size) ==
    (count \div size) + (IF count % size # 0 THEN 1 ELSE 0)

\* next/last of number/size mode (api.go 123-131).
NumberNextLast(params, number, totalPages) ==
    IF number # totalPages
    THEN ("next" :> [params EXCEPT !.number = FormatUint((number + 1) % UintMod)])
         @@ ("last" :> [params EXCEPT !.number = FormatUint(totalPages)])
    ELSE NoLinks

\* first/prev of offset/limit mode (api.go 144-158).
OffsetFirstPrev(p, params, offset, limit) ==
    IF p.offset # <<"0">>
    THEN ("first" :> [params EXCEPT !.offset = <<"0">>])
         @@ ("prev" :> [params EXCEPT !.offset =
                FormatUint(IF limit > offset THEN 0 ELSE offset - limit)])
    ELSE NoLinks

\* next/last of offset/limit mode (api.go 160-169).
OffsetNextLast(params, offset, limit, count) ==
    IF ((offset + limit) % UintMod) < count
    THEN ("next" :> [params EXCEPT !.offset = FormatUint((offset + limit) % UintMod)])
         @@ ("last" :> [params EXCEPT !.offset = FormatUint((count - limit) % UintMod)])
    ELSE NoLinks

\* getLinks with a slip: the error of parsing page[number] is dropped and the
\* zero value it leaves in number is used.
getLinksIgnoresNumberError(p, params, count) ==
    IF p.number # <<>>
    THEN LET pn == ParseUint(p.number)
             ps == ParseUint(p.size)
             fp == NumberFirstPrev(p, params, pn.val)
         IN  IF ps.err # "nil"
             THEN [result |-> fp, err |-> ps.err, panic |-> FALSE]
             ELSE IF ps.val = 0
             THEN [result |-> fp, err |-> "nil", panic |-> TRUE]
             ELSE [result |-> NumberNextLast(params, pn.val, TotalPages(count, ps.val)) @@ fp,
                   err |-> "nil", panic |-> FALSE]
    ELSE LET po == ParseUint(p.offset)
             pl == ParseUint(p.limit)
         IN  IF po.err # "nil"
             THEN [result |-> NoLinks, err |-> po.err, panic |-> FALSE]
             ELSE IF pl.err # "nil"
             THEN [result |-> NoLinks, err |-> pl.err, panic |-> FALSE]
             ELSE [result |-> OffsetNextLast(params, po.val, pl.val, count)
                               @@ OffsetFirstPrev(p, params, po.val, pl.val),
                   err |-> "nil", panic |-> FALSE]

\* getLinks returns the named results (result, err); panic is the integer
\* division by zero of api.go 117 when page[size] parses to 0.
getLinks(p, params, count) ==
    IF p.number # <<>>
    THEN LET pn == ParseUint(p.number)
             ps == ParseUint(p.size)
             fp == NumberFirstPrev(p, params, pn.val)
         IN  IF pn.err # "nil"
             THEN [result |-> NoLinks, err |-> pn.err, panic |-> FALSE]
             ELSE IF ps.err # "nil"
             THEN [result |-> fp, err |-> ps.err, panic |-> FALSE]
             ELSE IF ps.val = 0
             THEN [result |-> fp, err |-> "nil", panic |-> TRUE]
             ELSE [result |-> NumberNextLast(params, pn.val, TotalPages(count, ps.val)) @@ fp,
                   err |-> "nil", panic |-> FALSE]
    ELSE LET po == ParseUint(p.offset)
             pl == ParseUint(p.limit)
         IN  IF po.err # "nil"
             THEN [result |-> NoLinks, err |-> po.err, panic |-> FALSE]
             ELSE IF pl.err # "nil"
             THEN [result |-> NoLinks, err |-> pl.err, panic |-> FALSE]
             ELSE [result |-> OffsetNextLast(params, po.val, pl.val, count)
                               @@ OffsetFirstPrev(p, params, po.val, pl.val),
                   err |-> "nil", panic |-> FALSE]

----------------------------------------------------------------------------
\* Errors. NewHTTPError builds a structured error carrying its own status;
\* errors.New / fmt.Errorf / strconv errors are plain errors.

NoErr == [kind |-> "nil", status |-> 0, detail |-> ""]

NewHTTPError(msg, status) == [kind |-> "http", status |-> status, detail |-> msg]

PlainError(msg) == [kind |-> "plain", status |-> 0, detail |-> msg]

\* The error tree of a structured error: the error itself, the sub-errors
\* appended to it (held by value) and the count of errors in the tree, the
\* node itself included.
httpError(e) == [err |-> e, errors |-> <<>>, errorsCount |-> 1]

\* AddHTTPError with a slip: every append counts for one.
AddHTTPErrorCountsOne(e, sub) ==
    [e EXCEPT !.errors = Append(@, sub), !.errorsCount = @ + 1]

\* e.AddHTTPError(sub): append sub and add its count to e's.
AddHTTPError(e, sub) ==
    [e EXCEPT !.errors = Append(@, sub), !.errorsCount = @ + sub.errorsCount]

StatusOK == 200
StatusCreated == 201
StatusNoContent == 204
StatusForbidden == 403
StatusNotFound == 404
StatusInternalServerError == 500

----------------------------------------------------------------------------
\* The API facade and its registry (NewAPI, AddResource).

JSONAPI == "application/vnd.api+json"

\* api.prefix after NewAPI("v1"): the trimmed prefix between slashes.
ApiPrefix == "/v1/"

DefaultContentMarshalers == (JSONAPI :> "JSONContentMarshaler")

\* The optional capabilities a backend may implement besides CRUD.
OptionalCaps == {"FindAll", "PaginatedFindAll"}

\* jsonapi.Reference: a relation's field name and the name of its target.
Reference(name, type) == [Name |-> name, Type |-> type]
NoReference == Reference("", "")

\* A prototype passed to AddResource: its type's bare name, the kind of the
\* value (the struct itself, a pointer to it, or something else), the
\* references it declares when it implements jsonapi.MarshalReferences (none
\* otherwise) and whether it implements jsonapi.EditToManyRelations.
Prototype(type, kind, references, editToMany) ==
    [type |-> type, kind |-> kind, references |-> references, editToMany |-> editToMany]

\* jsonapi.Pluralize: the plural of a word; a plural is left as it is.
Pluralize(word) ==
    CASE word = "Post" -> "Posts"
      [] word = "Comment" -> "Comments"
      [] word = "User" -> "Users"
      [] word = "Tag" -> "Tags"
      [] word = "author" -> "authors"
      [] word = "post" -> "posts"
      [] OTHER -> word

\* jsonapi.Jsonify: the word with a lower-case first letter.
Jsonify(word) ==
    CASE word = "Posts" -> "posts"
      [] word = "Comments" -> "comments"
      [] word = "Users" -> "users"
      [] word = "Tags" -> "tags"
      [] OTHER -> word

\* A path pattern under the prefix: <name>, <name>/:id,
\* <name>/:id/relationships/<rel> or <name>/:id/<rel>.
Path(name, shape, rel) == [name |-> name, shape |-> shape, rel |-> rel]

\* A route of the router: method and path, and the closure registered for
\* them: the handler it runs, on which resource, for which relation.
Route(method, path, handler, res, relation) ==
    [method |-> method, path |-> path, handler |-> handler, res |-> res,
     relation |-> relation]

\* The routes of one relation, registered without asking whether the
\* relation's name is a plural.
RelationRoutesForAnyName(name, ri, relation, editToMany) ==
    { Route("GET", Path(name, "relationships", relation.Name), "readRelation", ri, relation),
      Route("GET", Path(name, "linked", relation.Name), "linked", ri, relation),
      Route("PATCH", Path(name, "relationships", relation.Name), "replaceRelation", ri, relation) }
    \cup (IF editToMany
          THEN { Route("POST", Path(name, "relationships", relation.Name),
                       "addToMany", ri, relation),
                 Route("DELETE", Path(name, "relationships", relation.Name),
                       "deleteToMany", ri, relation) }
          ELSE {})

\* The routes addResource registers for one relation (api.go 354-402).
RelationRoutes(name, ri, relation, editToMany) ==
    { Route("GET", Path(name, "relationships", relation.Name), "readRelation", ri, relation),
      Route("GET", Path(name, "linked", relation.Name), "linked", ri, relation),
      Route("PATCH", Path(name, "relationships", relation.Name), "replaceRelation", ri, relation) }
    \cup (IF editToMany /\ relation.Name = Pluralize(relation.Name)
          THEN { Route("POST", Path(name, "relationships", relation.Name),
                       "addToMany", ri, relation),
                 Route("DELETE", Path(name, "relationships", relation.Name),
                       "deleteToMany", ri, relation) }
          ELSE {})

\* The API after NewAPIWithMarshalers (NewAPI: the default marshalers).
NewAPIWithMarshalers(marshalers) ==
    [prefix |-> ApiPrefix, resources |-> <<>>, routes |-> {}, marshalers |-> marshalers,
     panic |-> FALSE]

\* addResource: derive the name, register the routes, append the resource.
\* A prototype that is neither a struct nor a pointer makes it panic.
addResource(api, prototype, source, marshalers) ==
    IF prototype.kind \notin {"struct", "ptr"}
    THEN [api EXCEPT !.panic = TRUE]
    ELSE LET name == Jsonify(Pluralize(prototype.type))
             ri == Len(api.resources) + 1
             res == [resourceType |-> [kind |-> prototype.kind, name |-> prototype.type],
                     name |-> name, source |-> source, marshalers |-> marshalers]
             fixed ==
                 { Route("OPTIONS", Path(name, "collection", ""), "optionsCollection", ri, NoReference),
                   Route("OPTIONS", Path(name, "item", ""), "optionsItem", ri, NoReference),
                   Route("GET", Path(name, "collection", ""), "index", ri, NoReference),
                   Route("GET", Path(name, "item", ""), "read", ri, NoReference),
                   Route("POST", Path(name, "collection", ""), "create", ri, NoReference),
                   Route("DELETE", Path(name, "item", ""), "delete", ri, NoReference),
                   Route("PATCH", Path(name, "item", ""), "update", ri, NoReference) }
             relations ==
                 UNION { RelationRoutes(name, ri, prototype.references[i], prototype.editToMany) :
                             i \in DOMAIN prototype.references }
         IN  [api EXCEPT !.routes = @ \cup fixed \cup relations,
                         !.resources = Append(@, res)]

AddResource(api, prototype, source) == addResource(api, prototype, source, api.marshalers)

\* The resources registered on the server: one per capability set of its
\* backend. Post declares relations to every kind of target, likes among them,
\* whose target is not registered.
Registered ==
    << [prototype |-> Prototype("Post", "struct",
                                << Reference("author", "users"),
                                   Reference("comments", "comments"),
                                   Reference("tags", "tags"),
                                   Reference("likes", "likes") >>, TRUE),
        source |-> {"FindAll", "PaginatedFindAll"}],
       [prototype |-> Prototype("Comment", "ptr", <<Reference("post", "posts")>>, FALSE),
        source |-> {"FindAll"}],
       [prototype |-> Prototype("User", "struct", <<>>, FALSE),
        source |-> {"PaginatedFindAll"}],
       [prototype |-> Prototype("Tag", "ptr", <<>>, TRUE),
        source |-> {}] >>

RECURSIVE AddResources(_, _)
AddResources(api, registered) ==
    IF registered = <<>> THEN api
    ELSE AddResources(AddResource(api, Head(registered).prototype, Head(registered).source),
                      Tail(registered))

\* The server once its resources are registered.
Server(marshalers) == AddResources(NewAPIWithMarshalers(marshalers), Registered)

Registry == Server(DefaultContentMarshalers).resources
RouteTable == Server(DefaultContentMarshalers).routes

----------------------------------------------------------------------------
\* Values exchanged with the backend and the document codec.

Objects == {"objA", "objB"}
IDs == {"1", "2"}
Collections == {<<>>, <<"objA">>}

\* The errors a backend returns: a plain error, and structured errors built
\* with NewHTTPError, whose status is any int the backend chooses.
BackendErrors ==
    {PlainError("backend failure"), NewHTTPError("not found", StatusNotFound),
     NewHTTPError("accepted", StatusOK)}

Ok(val, count) == [err |-> NoErr, val |-> val, count |-> count]
Fail(e) == [err |-> e, val |-> <<>>, count |-> 0]
Failures == {Fail(e) : e \in BackendErrors}

FindOneOutcomes == Failures \cup {Ok(<<o>>, 0) : o \in Objects}
CreateOutcomes == Failures \cup {Ok(<<i>>, 0) : i \in IDs}
UpdateOutcomes == Failures \cup {Ok(<<>>, 0)}
DeleteOutcomes == Failures \cup {Ok(<<>>, 0)}
FindAllOutcomes == Failures \cup {Ok(c, 0) : c \in Collections}
PaginatedFindAllOutcomes ==
    Failures \cup {Ok(c, n) : c \in Collections, n \in 0..MaxCount}

\* Which step of encoding a response fails, if any: jsonapi.MarshalWithURLs
\* or the selected marshaler's Marshal.
EncodeOutcomes == {"ok", "MarshalWithURLs", "Marshal"}

\* One entry of the call log: a backend operation on a resource's source,
\* with the Request it was handed and what it returned.
Call(op, res, request, arg, out) ==
    [op |-> op, res |-> res, request |-> request, arg |-> arg, out |-> out]

BackendOps == {"FindOne", "Create", "Update", "Delete", "FindAll", "PaginatedFindAll"}

----------------------------------------------------------------------------
\* The response writer.

NoBody == [kind |-> "none", by |-> "", data |-> <<>>, paginated |-> FALSE,
           links |-> NoLinks, detail |-> "", keys |-> {}]

NoLocation == <<>>

NewResponseWriter ==
    [header |-> [Location |-> NoLocation, ContentType |-> "", Allow |-> ""],
     status |-> <<>>,
     body |-> NoBody]

\* What a handler returns to its route closure.
Return(c, w0, e) ==
    [calls |-> c, w |-> w0, err |-> e, panic |-> FALSE, encoding |-> <<>>,
     selected |-> <<>>]
Panic(c, w0) ==
    [calls |-> c, w |-> w0, err |-> NoErr, panic |-> TRUE, encoding |-> <<>>,
     selected |-> <<>>]

\* One step of encoding a response and whether it succeeded.
Step(op, ok) == [op |-> op, ok |-> ok]

writeResult(w0, data, status, contentType) ==
    [w0 EXCEPT !.header.ContentType = contentType,
               !.status = Append(@, status),
               !.body = data]

----------------------------------------------------------------------------
\* Content negotiation.

\* The orders in which a range over the marshaler map may visit its keys
\* (Go leaves the iteration order of a map unspecified).
Orders(marshalers) ==
    {o \in [1..Cardinality(DOMAIN marshalers) -> DOMAIN marshalers] :
        \A ct \in DOMAIN marshalers : \E i \in DOMAIN o : o[i] = ct}

\* The Accept header is one media range: a content type, or */* for any.
Accepts(range, offer) == range = "*/*" \/ range = offer

\* httputil.NegotiateContentType: of the offers the Accept header accepts,
\* the one earliest in the list of offers; the default when none is accepted.
NegotiateContentType(r, offers, default) ==
    IF \E i \in DOMAIN offers : Accepts(r.header["Accept"], offers[i])
    THEN offers[CHOOSE i \in DOMAIN offers :
                    /\ Accepts(r.header["Accept"], offers[i])
                    /\ \A j \in 1..(i - 1) : ~Accepts(r.header["Accept"], offers[j])]
    ELSE default

\* selectContentMarshaler with a slip: without an Accept match the
\* Content-Type header is consulted as well.
selectContentMarshalerFallsThrough(r, marshalers, order) ==
    LET negotiated ==
            IF "Accept" \in DOMAIN r.header
            THEN NegotiateContentType(r, order, "")
            ELSE ""
        picked ==
            IF negotiated # "" THEN negotiated
            ELSE IF "Content-Type" \in DOMAIN r.header
            THEN r.header["Content-Type"]
            ELSE ""
    IN  IF picked \in DOMAIN marshalers
        THEN [marshaler |-> marshalers[picked], contentType |-> picked]
        ELSE [marshaler |-> "JSONContentMarshaler", contentType |-> JSONAPI]

\* order is the order in which the range over marshalers (api.go 928) visits
\* the configured content types.
selectContentMarshaler(r, marshalers, order) ==
    LET picked ==
            IF "Accept" \in DOMAIN r.header
            THEN NegotiateContentType(r, order, JSONAPI)
            ELSE IF "Content-Type" \in DOMAIN r.header
            THEN r.header["Content-Type"]
            ELSE ""
    IN  IF picked \in DOMAIN marshalers
        THEN [marshaler |-> marshalers[picked], contentType |-> picked]
        ELSE [marshaler |-> "JSONContentMarshaler", contentType |-> JSONAPI]

\* One use of selectContentMarshaler: what it was for and what it returned.
Selection(use, sel) ==
    [use |-> use, marshaler |-> sel.marshaler, contentType |-> sel.contentType]

\* marshalError: the error document of err, encoded by the marshaler.
marshalError(e, marshaler) ==
    [NoBody EXCEPT !.kind = "error", !.by = marshaler, !.detail = e.detail]

\* handleError with a slip: the status of a structured error is not used.
handleErrorAlways500(e, w0, r, marshalers, order) ==
    LET sel == selectContentMarshaler(r, marshalers, order)
    IN  writeResult(w0, marshalError(e, sel.marshaler),
                    StatusInternalServerError, sel.contentType)

handleError(e, w0, r, marshalers, order) ==
    LET sel == selectContentMarshaler(r, marshalers, order)
    IN  IF e.kind = "http"
        THEN writeResult(w0, marshalError(e, sel.marshaler), e.status, sel.contentType)
        ELSE writeResult(w0, marshalError(e, sel.marshaler),
                         StatusInternalServerError, sel.contentType)

\* marshalResponse: encode resp with the selected marshaler and write it.
marshalResponse(c, resp, w0, status, r, marshalers, enc, order) ==
    LET sel == selectContentMarshaler(r, marshalers, order)
    IN  IF enc = "Marshal"
        THEN [Return(c, w0, PlainError("marshal failure"))
                EXCEPT !.encoding = <<Step("Marshal", FALSE)>>,
                       !.selected = <<Selection("encode", sel)>>]
        ELSE [Return(c, writeResult(w0, [resp EXCEPT !.by = sel.marshaler],
                                    status, sel.contentType), NoErr)
                EXCEPT !.encoding = <<Step("Marshal", TRUE)>>,
                       !.selected = <<Selection("encode", sel)>>]

\* jsonapi.MarshalWithURLs(obj, info): the JSON:API document of obj.
MarshalWithURLs(objs) == [NoBody EXCEPT !.kind = "document", !.data = objs]

respondWith(c, objs, status, w0, r, marshalers, enc, order) ==
    IF enc = "MarshalWithURLs"
    THEN [Return(c, w0, PlainError("document failure"))
            EXCEPT !.encoding = <<Step("MarshalWithURLs", FALSE)>>]
    ELSE LET out == marshalResponse(c, MarshalWithURLs(objs), w0, status, r, marshalers, enc, order)
         IN  [out EXCEPT !.encoding = <<Step("MarshalWithURLs", TRUE)>> \o @]

respondWithPagination(c, objs, status, links, w0, r, marshalers, enc, order) ==
    IF enc = "MarshalWithURLs"
    THEN [Return(c, w0, PlainError("document failure"))
            EXCEPT !.encoding = <<Step("MarshalWithURLs", FALSE)>>]
    ELSE LET out == marshalResponse(c, [MarshalWithURLs(objs) EXCEPT !.paginated = TRUE,
                                                                     !.links = links],
                                    w0, status, r, marshalers, enc, order)
         IN  [out EXCEPT !.encoding = <<Step("MarshalWithURLs", TRUE)>> \o @]

----------------------------------------------------------------------------
\* Requests.

\* strings.Split(s, ","): the pieces of s between commas.
RECURSIVE Split(_)
Split(s) ==
    IF \A i \in 1..Len(s) : s[i] # ","
    THEN <<s>>
    ELSE LET i == CHOOSE j \in 1..Len(s) : s[j] = "," /\ \A k \in 1..(j - 1) : s[k] # ","
         IN  <<SubSeq(s, 1, i - 1)>> \o Split(SubSeq(s, i + 1, Len(s)))

\* buildRequest: the Request handed to the backend. QueryParams holds, for
\* every key of the query, its first value split at commas.
buildRequest(r) ==
    [QueryParams |-> [k \in {k \in PageKeys : r.query[k] # <<>>} |-> Split(r.query[k])],
     Header |-> r.header]

\* The decoded request body: whether the marshaler's Unmarshal succeeds, what
\* the document holds under "data", the keys of data when it is an object, and
\* what jsonapi.UnmarshalInto makes of it (an error, or the objects decoded).
Body(wellFormed, data, keys, intoErr, objs) ==
    [wellFormed |-> wellFormed, data |-> data, keys |-> keys,
     intoErr |-> intoErr, objs |-> objs, entries |-> <<>>]

\* A decoded body whose "data" is an array: entries holds, for each entry,
\* whether it is an object and its "id" when that is a string ("" when the
\* entry has no id or one that is not a string).
Entry(object, id) == [object |-> object, id |-> id]
ArrayBody(entries) ==
    [Body(TRUE, "array", {}, TRUE, <<>>) EXCEPT !.entries = entries]

NoBodySent == Body(FALSE, "absent", {}, TRUE, <<>>)

\* unmarshalRequest: read the body and decode it with the selected marshaler.
unmarshalRequest(r, marshalers, order) ==
    LET sel == selectContentMarshaler(r, marshalers, order)
    IN  IF r.body.wellFormed
        THEN [ctx |-> r.body, err |-> NoErr, selected |-> Selection("decode", sel)]
        ELSE [ctx |-> r.body, err |-> PlainError("unmarshal failure"),
              selected |-> Selection("decode", sel)]

\* What a handler returns once it has decoded the body: the marshaler
\* selected for decoding comes before those selected afterwards.
Decoded(um, out) == [out EXCEPT !.selected = <<um.selected>> \o @]

----------------------------------------------------------------------------
\* OPTIONS: the two closures addResource registers first.

\* The collection closure answering with the methods of the item path.
optionsCollectionAllowsItemMethods(w0) ==
    Return(<<>>, [w0 EXCEPT !.header.Allow = "GET,PATCH,DELETE,OPTIONS",
                            !.status = Append(@, StatusNoContent)], NoErr)

optionsCollection(w0) ==
    Return(<<>>, [w0 EXCEPT !.header.Allow = "GET,POST,PATCH,OPTIONS",
                            !.status = Append(@, StatusNoContent)], NoErr)

optionsItem(w0) ==
    Return(<<>>, [w0 EXCEPT !.header.Allow = "GET,PATCH,DELETE,OPTIONS",
                            !.status = Append(@, StatusNoContent)], NoErr)

----------------------------------------------------------------------------
\* Collection GET.

\* handleIndex with a slip: a backend without PaginatedFindAll is served by
\* FindAll instead of being refused.
handleIndexFallsBack(ri, res, r, w0, env) ==
    LET pagination == newPaginationQueryParams(r.query)
    IN  IF isValid(pagination) /\ "PaginatedFindAll" \in res.source
        THEN LET c == <<Call("PaginatedFindAll", ri, buildRequest(r), <<>>, env.pf)>>
                 l == getLinks(pagination, r.query, env.pf.count)
             IN  IF env.pf.err # NoErr THEN Return(c, w0, env.pf.err)
                 ELSE IF l.panic THEN Panic(c, w0)
                 ELSE IF l.err # "nil" THEN Return(c, w0, PlainError(l.err))
                 ELSE respondWithPagination(c, env.pf.val, StatusOK, l.result,
                                            w0, r, res.marshalers, env.enc, env.encOrder)
        ELSE IF "FindAll" \notin res.source
        THEN Return(<<>>, w0,
                    NewHTTPError("Resource does not implement the FindAll interface",
                                 StatusNotFound))
        ELSE LET c == <<Call("FindAll", ri, buildRequest(r), <<>>, env.fa)>>
             IN  IF env.fa.err # NoErr THEN Return(c, w0, env.fa.err)
                 ELSE respondWith(c, env.fa.val, StatusOK, w0, r, res.marshalers, env.enc, env.encOrder)

handleIndex(ri, res, r, w0, env) ==
    LET pagination == newPaginationQueryParams(r.query)
    IN  IF isValid(pagination)
        THEN IF "PaginatedFindAll" \notin res.source
             THEN Return(<<>>, w0,
                         NewHTTPError("Resource does not implement the PaginatedFindAll interface",
                                      StatusNotFound))
             ELSE LET c == <<Call("PaginatedFindAll", ri, buildRequest(r), <<>>, env.pf)>>
                      l == getLinks(pagination, r.query, env.pf.count)
                  IN  IF env.pf.err # NoErr THEN Return(c, w0, env.pf.err)
                      ELSE IF l.panic THEN Panic(c, w0)
                      ELSE IF l.err # "nil" THEN Return(c, w0, PlainError(l.err))
                      ELSE respondWithPagination(c, env.pf.val, StatusOK, l.result,
                                                 w0, r, res.marshalers, env.enc, env.encOrder)
        ELSE IF "FindAll" \notin res.source
        THEN Return(<<>>, w0,
                    NewHTTPError("Resource does not implement the FindAll interface",
                                 StatusNotFound))
        ELSE LET c == <<Call("FindAll", ri, buildRequest(r), <<>>, env.fa)>>
             IN  IF env.fa.err # NoErr THEN Return(c, w0, env.fa.err)
                 ELSE respondWith(c, env.fa.val, StatusOK, w0, r, res.marshalers, env.enc, env.encOrder)

----------------------------------------------------------------------------
\* Relationship GET.

\* The document jsonapi.MarshalWithURLs returned for the fetched object, as
\* handleReadRelation reads it: what "data" and "relationships" hold
\* ("absent", an "object"/"map" of the asserted type, or a value of some
\* "other" type), whether the named relation is among the relationships,
\* what its "links" holds, which of self and related the links have, and
\* whether the relation has a "data" key.
Doc(data, relationships, relation, links, linkKeys, relData) ==
    [data |-> data, relationships |-> relationships, relation |-> relation,
     links |-> links, linkKeys |-> linkKeys, relData |-> relData]

\* Every shape of document, each level present only inside the one above.
Docs ==
    { Doc("absent", "absent", FALSE, "absent", {}, FALSE),
      Doc("other", "absent", FALSE, "absent", {}, FALSE),
      Doc("object", "absent", FALSE, "absent", {}, FALSE),
      Doc("object", "other", FALSE, "absent", {}, FALSE),
      Doc("object", "map", FALSE, "absent", {}, FALSE) }
    \cup { Doc("object", "map", TRUE, l, {}, d) : l \in {"absent", "other"}, d \in BOOLEAN }
    \cup { Doc("object", "map", TRUE, "map", k, d) :
               k \in SUBSET {"self", "related"}, d \in BOOLEAN }

\* What a handler returns once MarshalWithURLs has produced doc (its error
\* is not looked at, api.go 507).
Encoded(doc, out) ==
    [out EXCEPT !.encoding = <<[op |-> "MarshalWithURLs", ok |-> TRUE, doc |-> doc]>> \o @]

handleReadRelation(ri, res, r, w0, relation, env) ==
    LET c == <<Call("FindOne", ri, buildRequest(r), <<r.id>>, env.findOne)>>
        internalError == NewHTTPError("Internal server error, invalid object structure",
                                      StatusInternalServerError)
        doc == env.doc
        result == [NoBody EXCEPT !.kind = "relationship", !.data = <<relation.Name>>,
                                 !.keys = {"links.self", "links.related", "data"}]
    IN  IF env.findOne.err # NoErr THEN Return(c, w0, env.findOne.err)
        ELSE Encoded(doc,
        IF doc.data = "absent" THEN Return(c, w0, internalError)
        ELSE IF doc.data # "object" THEN Panic(c, w0)
        ELSE IF doc.relationships = "absent" THEN Return(c, w0, internalError)
        ELSE IF doc.relationships # "map" THEN Panic(c, w0)
        ELSE IF ~doc.relation
        THEN Return(c, w0, NewHTTPError("There is no relation with the name", StatusNotFound))
        ELSE IF doc.links # "map" THEN Return(c, w0, internalError)
        ELSE IF "self" \notin doc.linkKeys THEN Return(c, w0, internalError)
        ELSE IF "related" \notin doc.linkKeys THEN Return(c, w0, internalError)
        ELSE IF ~doc.relData THEN Return(c, w0, internalError)
        ELSE marshalResponse(c, result, w0, StatusOK, r, res.marshalers,
                             env.enc, env.encOrder))

----------------------------------------------------------------------------
\* Linked-collection GET.

\* res.name + "ID", the key of the filter handleLinked injects.
IDKey(name) ==
    CASE name = "posts" -> "postsID"
      [] name = "comments" -> "commentsID"
      [] name = "users" -> "usersID"
      [] OTHER -> "tagsID"

\* The Request handed to the linked backend, without the injected filter.
linkedRequestWithoutFilter(res, r) == buildRequest(r)

\* The Request handleLinked hands to the linked backend (api.go 553-554).
linkedRequest(res, r) ==
    LET request == buildRequest(r)
    IN  [request EXCEPT !.QueryParams = (IDKey(res.name) :> <<r.id>>) @@ @]

\* The resource searched with a slip: when no resource bears the target's
\* name, the first registered resource is taken.
linkedResourceOrFirst(registry, linked) ==
    IF \E i \in DOMAIN registry : registry[i].name = linked.Type
    THEN CHOOSE i \in DOMAIN registry :
             /\ registry[i].name = linked.Type
             /\ \A j \in 1..(i - 1) : registry[j].name # linked.Type
    ELSE 1

\* The loop of handleLinked over api.resources (api.go 551-552): the index of
\* the first resource named as the relation's target, 0 when there is none.
linkedResource(registry, linked) ==
    IF \E i \in DOMAIN registry : registry[i].name = linked.Type
    THEN CHOOSE i \in DOMAIN registry :
             /\ registry[i].name = linked.Type
             /\ \A j \in 1..(i - 1) : registry[j].name # linked.Type
    ELSE 0

\* The Error value handleLinked responds with when no resource is found; its
\* Status is string(http.StatusNotFound), the one-character string of code
\* point 404.
LinkedNotFound(linked) ==
    [Status |-> "U+0194", Title |-> "Not Found",
     Detail |-> "No resource handler is registered to handle the linked resource",
     Name |-> linked.Name]

handleLinked(registry, ri, res, r, w0, linked, env) ==
    LET ti == linkedResource(registry, linked)
        request == linkedRequest(res, r)
        pagination == newPaginationQueryParams(r.query)
    IN  IF ti = 0
        THEN respondWith(<<>>, <<LinkedNotFound(linked)>>, StatusNotFound,
                         w0, r, res.marshalers, env.enc, env.encOrder)
        ELSE IF isValid(pagination)
        THEN IF "PaginatedFindAll" \notin registry[ti].source
             THEN Return(<<>>, w0,
                         NewHTTPError("Resource does not implement the PaginatedFindAll interface",
                                      StatusNotFound))
             ELSE LET c == <<Call("PaginatedFindAll", ti, request, <<>>, env.pf)>>
                      l == getLinks(pagination, r.query, env.pf.count)
                  IN  IF env.pf.err # NoErr THEN Return(c, w0, env.pf.err)
                      ELSE IF l.panic THEN Panic(c, w0)
                      ELSE IF l.err # "nil" THEN Return(c, w0, PlainError(l.err))
                      ELSE respondWithPagination(c, env.pf.val, StatusOK, l.result,
                                                 w0, r, res.marshalers, env.enc, env.encOrder)
        ELSE IF "FindAll" \notin registry[ti].source
        THEN Return(<<>>, w0,
                    NewHTTPError("Resource does not implement the FindAll interface",
                                 StatusNotFound))
        ELSE LET c == <<Call("FindAll", ti, request, <<>>, env.fa)>>
             IN  IF env.fa.err # NoErr THEN Return(c, w0, env.fa.err)
                 ELSE respondWith(c, env.fa.val, StatusOK, w0, r, res.marshalers,
                                  env.enc, env.encOrder)

----------------------------------------------------------------------------
\* Item GET.

handleRead(ri, res, r, w0, env) ==
    LET c == <<Call("FindOne", ri, buildRequest(r), <<r.id>>, env.findOne)>>
    IN  IF env.findOne.err # NoErr THEN Return(c, w0, env.findOne.err)
        ELSE respondWith(c, env.findOne.val, StatusOK, w0, r, res.marshalers, env.enc, env.encOrder)

----------------------------------------------------------------------------
\* Collection POST.

\* The Location header: prefix + res.name + "/" + id.
Location(prefix, name, id) == <<prefix, name, "/", id>>

\* handleCreate with a slip: the submitted object is echoed instead of the
\* object fetched after Create.
handleCreateEchoesInput(ri, res, r, w0, prefix, env) ==
    LET um == unmarshalRequest(r, res.marshalers, env.decOrder)
        newObjs == um.ctx.objs
        c1 == <<Call("Create", ri, buildRequest(r), <<newObjs[1]>>, env.create)>>
        id == env.create.val[1]
        w1 == [w0 EXCEPT !.header.Location = Location(prefix, res.name, id)]
        c2 == Append(c1, Call("FindOne", ri, buildRequest(r), <<id>>, env.findOne))
    IN  Decoded(um,
        IF um.err # NoErr THEN Return(<<>>, w0, um.err)
        ELSE IF um.ctx.intoErr THEN Return(<<>>, w0, PlainError("unmarshal into failure"))
        ELSE IF Len(newObjs) # 1 THEN Return(<<>>, w0, PlainError("expected one object in POST"))
        ELSE IF env.create.err # NoErr THEN Return(c1, w0, env.create.err)
        ELSE IF env.findOne.err # NoErr THEN Return(c2, w1, env.findOne.err)
        ELSE respondWith(c2, <<newObjs[1]>>, StatusCreated, w1, r, res.marshalers, env.enc, env.encOrder))

\* handleCreate with a slip: only an empty payload is refused, and the first
\* of several objects is created.
handleCreateTakesFirst(ri, res, r, w0, prefix, env) ==
    LET um == unmarshalRequest(r, res.marshalers, env.decOrder)
        newObjs == um.ctx.objs
        c1 == <<Call("Create", ri, buildRequest(r), <<newObjs[1]>>, env.create)>>
        id == env.create.val[1]
        w1 == [w0 EXCEPT !.header.Location = Location(prefix, res.name, id)]
        c2 == Append(c1, Call("FindOne", ri, buildRequest(r), <<id>>, env.findOne))
    IN  Decoded(um,
        IF um.err # NoErr THEN Return(<<>>, w0, um.err)
        ELSE IF um.ctx.intoErr THEN Return(<<>>, w0, PlainError("unmarshal into failure"))
        ELSE IF Len(newObjs) = 0 THEN Return(<<>>, w0, PlainError("expected one object in POST"))
        ELSE IF env.create.err # NoErr THEN Return(c1, w0, env.create.err)
        ELSE IF env.findOne.err # NoErr THEN Return(c2, w1, env.findOne.err)
        ELSE respondWith(c2, env.findOne.val, StatusCreated, w1, r, res.marshalers, env.enc, env.encOrder))

handleCreate(ri, res, r, w0, prefix, env) ==
    LET um == unmarshalRequest(r, res.marshalers, env.decOrder)
        newObjs == um.ctx.objs
        c1 == <<Call("Create", ri, buildRequest(r), <<newObjs[1]>>, env.create)>>
        id == env.create.val[1]
        w1 == [w0 EXCEPT !.header.Location = Location(prefix, res.name, id)]
        c2 == Append(c1, Call("FindOne", ri, buildRequest(r), <<id>>, env.findOne))
    IN  Decoded(um,
        IF um.err # NoErr THEN Return(<<>>, w0, um.err)
        ELSE IF um.ctx.intoErr THEN Return(<<>>, w0, PlainError("unmarshal into failure"))
        ELSE IF Len(newObjs) # 1 THEN Return(<<>>, w0, PlainError("expected one object in POST"))
        ELSE IF env.create.err # NoErr THEN Return(c1, w0, env.create.err)
        ELSE IF env.findOne.err # NoErr THEN Return(c2, w1, env.findOne.err)
        ELSE respondWith(c2, env.findOne.val, StatusCreated, w1, r, res.marshalers, env.enc, env.encOrder))

----------------------------------------------------------------------------
\* Item PATCH.

Forbidden(msg) == NewHTTPError(msg, StatusForbidden)

\* The shape checks with a slip: the type key is not asked for.
checkUpdateDocumentSkipsType(ctx) ==
    IF ctx.data = "absent" THEN Forbidden("missing mandatory data key.")
    ELSE IF ctx.data # "object" THEN Forbidden("data must contain an object.")
    ELSE IF "id" \notin ctx.keys THEN Forbidden("missing mandatory id key.")
    ELSE NoErr

\* The shape checks of handleUpdate on the decoded document (api.go 647-680):
\* the error of the first check that fails, NoErr when all pass.
checkUpdateDocument(ctx) ==
    IF ctx.data = "absent" THEN Forbidden("missing mandatory data key.")
    ELSE IF ctx.data # "object" THEN Forbidden("data must contain an object.")
    ELSE IF "id" \notin ctx.keys THEN Forbidden("missing mandatory id key.")
    ELSE IF "type" \notin ctx.keys THEN Forbidden("missing mandatory type key.")
    ELSE NoErr

\* env.merged: whether UnmarshalInto updated the fetched object in place
\* (one object in the slice) or appended the decoded one beside it.
handleUpdate(ri, res, r, w0, env) ==
    LET c1 == <<Call("FindOne", ri, buildRequest(r), <<r.id>>, env.findOne)>>
        um == unmarshalRequest(r, res.marshalers, env.decOrder)
        check == checkUpdateDocument(um.ctx)
        updatingObj == env.findOne.val \o um.ctx.objs
        c2 == Append(c1, Call("Update", ri, buildRequest(r), updatingObj, env.update))
    IN  IF env.findOne.err # NoErr THEN Return(c1, w0, env.findOne.err)
        ELSE Decoded(um,
        IF um.err # NoErr THEN Return(c1, w0, um.err)
        ELSE IF check # NoErr THEN Return(c1, w0, check)
        ELSE IF um.ctx.intoErr THEN Return(c1, w0, PlainError("unmarshal into failure"))
        ELSE IF ~env.merged THEN Return(c1, w0, PlainError("expected one object"))
        ELSE IF env.update.err # NoErr THEN Return(c2, w0, env.update.err)
        ELSE Return(c2, [w0 EXCEPT !.status = Append(@, StatusNoContent)], NoErr))

----------------------------------------------------------------------------
\* Item DELETE.

\* handleDelete calling Delete a second time when the first call failed.
handleDeleteRetries(ri, res, r, w0, env) ==
    LET c == <<Call("Delete", ri, buildRequest(r), <<r.id>>, env.delete)>>
    IN  IF env.delete.err # NoErr
        THEN Return(Append(c, Call("Delete", ri, buildRequest(r), <<r.id>>, env.delete)),
                    w0, env.delete.err)
        ELSE Return(c, [w0 EXCEPT !.status = Append(@, StatusNoContent)], NoErr)

handleDelete(ri, res, r, w0, env) ==
    LET c == <<Call("Delete", ri, buildRequest(r), <<r.id>>, env.delete)>>
    IN  IF env.delete.err # NoErr THEN Return(c, w0, env.delete.err)
        ELSE Return(c, [w0 EXCEPT !.status = Append(@, StatusNoContent)], NoErr)

----------------------------------------------------------------------------
\* Relationship PATCH, POST and DELETE.

\* What FindOne returned, as reflect sees it: objA is a struct value, objB a
\* pointer to a struct.
Kind(obj) == IF obj = "objA" THEN "struct" ELSE "ptr"

\* A pointer to a fresh copy of an object, and the struct value held in it.
Pointer(obj) == [kind |-> "ptr", of |-> obj]
Value(obj) == [kind |-> "struct", of |-> obj]

\* getRelationUpdateObjects: copy oldObj; the relation is edited through a
\* pointer to the copy, and Update is handed the struct value read out of the
\* copy (struct resources) or the same pointer (pointer resources).
getRelationUpdateObjects(oldObj) ==
    IF Kind(oldObj) = "struct"
    THEN [editObj |-> Pointer(oldObj), updateObj |-> Value(oldObj)]
    ELSE [editObj |-> Pointer(oldObj), updateObj |-> Pointer(oldObj)]

\* An edit made through editObj, and the object Update receives: the edit
\* shows in updateObj when both are the same pointer; the struct value was
\* read out of the copy before the edit.
Edit(op, name, ids) == <<op, name>> \o ids
UpdateArg(objs, edit) ==
    IF objs.updateObj = objs.editObj
    THEN <<objs.updateObj.of>> \o edit
    ELSE <<objs.updateObj.of>>

\* The Request of a call that is handed none (a method of the edited object).
NoBackendRequest == [QueryParams |-> [k \in {} |-> <<>>], Header |-> [k \in {} |-> ""]]

\* One entry of the call log for an edit of editObj.
EditCall(op, ri, name, ids, failed) ==
    Call(op, ri, NoBackendRequest, Edit(op, name, ids),
         IF failed THEN Fail(PlainError("relationship data invalid")) ELSE Ok(<<>>, 0))

EditOps == {"UnmarshalRelationshipsData", "AddToManyIDs", "DeleteToManyIDs"}

\* handleReplaceRelation. env.relErr: whether UnmarshalRelationshipsData
\* refuses the data for this relation.
handleReplaceRelation(ri, res, r, w0, relation, env) ==
    LET c1 == <<Call("FindOne", ri, buildRequest(r), <<r.id>>, env.findOne)>>
        um == unmarshalRequest(r, res.marshalers, env.decOrder)
        objs == getRelationUpdateObjects(env.findOne.val[1])
        c2 == Append(c1, EditCall("UnmarshalRelationshipsData", ri, relation.Name,
                                  <<>>, env.relErr))
        c3 == Append(c2, Call("Update", ri, buildRequest(r),
                              UpdateArg(objs, Edit("UnmarshalRelationshipsData",
                                                   relation.Name, <<>>)),
                              env.update))
    IN  IF env.findOne.err # NoErr THEN Return(c1, w0, env.findOne.err)
        ELSE Decoded(um,
        IF um.err # NoErr THEN Return(c1, w0, um.err)
        ELSE IF um.ctx.data = "absent"
        THEN Return(c1, w0, PlainError("Invalid object. Need a \"data\" object"))
        ELSE IF env.relErr THEN Return(c2, w0, PlainError("relationship data invalid"))
        ELSE IF env.update.err # NoErr THEN Return(c3, w0, env.update.err)
        ELSE Return(c3, [w0 EXCEPT !.status = Append(@, StatusNoContent)], NoErr))

\* The loop over the entries of data: the ids collected, or the error of the
\* first entry that is not an object or has no string id.
EntryError(entry) ==
    IF ~entry.object THEN PlainError("entry in data object invalid")
    ELSE IF entry.id = "" THEN PlainError("no id field found inside data object")
    ELSE NoErr

\* The same loop, skipping the entries it cannot use.
CollectIDsSkipsInvalid(entries) ==
    [ids |-> SelectSeq([i \in DOMAIN entries |-> entries[i].id], LAMBDA id : id # ""),
     err |-> NoErr]

CollectIDs(entries) ==
    IF \E i \in DOMAIN entries : EntryError(entries[i]) # NoErr
    THEN [ids |-> <<>>,
          err |-> EntryError(entries[CHOOSE i \in DOMAIN entries :
                                 /\ EntryError(entries[i]) # NoErr
                                 /\ \A j \in 1..(i - 1) : EntryError(entries[j]) = NoErr])]
    ELSE [ids |-> [i \in DOMAIN entries |-> entries[i].id], err |-> NoErr]

\* handleAddToManyRelation. env.editable: whether the pointer to the fetched
\* object's type implements jsonapi.EditToManyRelations.
handleAddToManyRelation(ri, res, r, w0, relation, env) ==
    LET c1 == <<Call("FindOne", ri, buildRequest(r), <<r.id>>, env.findOne)>>
        um == unmarshalRequest(r, res.marshalers, env.decOrder)
        objs == getRelationUpdateObjects(env.findOne.val[1])
        newIDs == CollectIDs(um.ctx.entries)
        c2 == Append(c1, EditCall("AddToManyIDs", ri, relation.Name, newIDs.ids, FALSE))
        c3 == Append(c2, Call("Update", ri, buildRequest(r),
                              UpdateArg(objs, Edit("AddToManyIDs", relation.Name, newIDs.ids)),
                              env.update))
    IN  IF env.findOne.err # NoErr THEN Return(c1, w0, env.findOne.err)
        ELSE Decoded(um,
        IF um.err # NoErr THEN Return(c1, w0, um.err)
        ELSE IF um.ctx.data = "absent"
        THEN Return(c1, w0, PlainError("Invalid object. Need a \"data\" object"))
        ELSE IF um.ctx.data # "array"
        THEN Return(c1, w0, PlainError("Data must be an array"))
        ELSE IF newIDs.err # NoErr THEN Return(c1, w0, newIDs.err)
        ELSE IF ~env.editable
        THEN Return(c1, w0, PlainError("target struct must implement jsonapi.EditToManyRelations"))
        ELSE IF env.update.err # NoErr THEN Return(c3, w0, env.update.err)
        ELSE Return(c3, [w0 EXCEPT !.status = Append(@, StatusNoContent)], NoErr))

\* handleDeleteToManyRelation.
handleDeleteToManyRelation(ri, res, r, w0, relation, env) ==
    LET c1 == <<Call("FindOne", ri, buildRequest(r), <<r.id>>, env.findOne)>>
        um == unmarshalRequest(r, res.marshalers, env.decOrder)
        objs == getRelationUpdateObjects(env.findOne.val[1])
        obsoleteIDs == CollectIDs(um.ctx.entries)
        c2 == Append(c1, EditCall("DeleteToManyIDs", ri, relation.Name,
                                  obsoleteIDs.ids, FALSE))
        c3 == Append(c2, Call("Update", ri, buildRequest(r),
                              UpdateArg(objs, Edit("DeleteToManyIDs", relation.Name,
                                                   obsoleteIDs.ids)),
                              env.update))
    IN  IF env.findOne.err # NoErr THEN Return(c1, w0, env.findOne.err)
        ELSE Decoded(um,
        IF um.err # NoErr THEN Return(c1, w0, um.err)
        ELSE IF um.ctx.data = "absent"
        THEN Return(c1, w0, PlainError("Invalid object. Need a \"data\" object"))
        ELSE IF um.ctx.data # "array"
        THEN Return(c1, w0, PlainError("Data must be an array"))
        ELSE IF obsoleteIDs.err # NoErr THEN Return(c1, w0, obsoleteIDs.err)
        ELSE IF ~env.editable
        THEN Return(c1, w0, PlainError("target struct must implement jsonapi.EditToManyRelations"))
        ELSE IF env.update.err # NoErr THEN Return(c3, w0, env.update.err)
        ELSE Return(c3, [w0 EXCEPT !.status = Append(@, StatusNoContent)], NoErr))

----------------------------------------------------------------------------
\* The requests served.

NoHeader == [k \in {} |-> ""]
Headers ==
    {NoHeader, ("Accept" :> JSONAPI), ("Content-Type" :> "text/plain"), ("Accept" :> "*/*")}

NoQuery == [k \in PageKeys |-> <<>>]

\* The page[...] values of the collection GETs served: every combination of
\* present and absent keys, and each pair with every value of QueryStrs.
QueryStrs == {<<>>, <<"0">>, <<"1">>, <<"2">>, <<"a">>, <<"-", "1">>}
Present == {<<>>, <<"1">>}
Queries ==
    {[number |-> n, size |-> s, offset |-> o, limit |-> l] :
        n \in QueryStrs, s \in QueryStrs, o \in Present, l \in Present}
    \cup {[number |-> n, size |-> s, offset |-> o, limit |-> l] :
        n \in Present, s \in Present, o \in QueryStrs, l \in QueryStrs}

Bodies ==
    {NoBodySent, Body(TRUE, "absent", {}, TRUE, <<>>), Body(TRUE, "scalar", {}, TRUE, <<>>),
     Body(TRUE, "array", {}, TRUE, <<>>)}
    \cup {Body(TRUE, "array", {}, FALSE, objs) : objs \in {<<>>, <<"objA">>, <<"objA", "objB">>}}
    \cup {Body(TRUE, "object", k, TRUE, <<>>) : k \in SUBSET {"id", "type"}}
    \cup {Body(TRUE, "object", k, FALSE, <<o>>) : k \in SUBSET {"id", "type"}, o \in Objects}

Request(route, ri, id, query, header, body) ==
    [route |-> route, res |-> ri, id |-> id, query |-> query,
     header |-> header, body |-> body, relation |-> NoReference]

\* A request on a route of a relation.
RelationRequest(route, ri, id, relation, query, header, body) ==
    [Request(route, ri, id, query, header, body) EXCEPT !.relation = relation]

NoRequest == Request("none", 0, "", NoQuery, NoHeader, NoBodySent)

\* The requests the router accepts, one set per registered route.
OptionsCollectionRequests ==
    {Request("optionsCollection", ri, "", NoQuery, h, NoBodySent) :
        ri \in DOMAIN Registry, h \in Headers}
OptionsItemRequests ==
    {Request("optionsItem", ri, id, NoQuery, h, NoBodySent) :
        ri \in DOMAIN Registry, id \in IDs, h \in Headers}
IndexRequests ==
    {Request("index", ri, "", q, h, NoBodySent) :
        ri \in DOMAIN Registry, q \in Queries, h \in Headers}
ReadRequests ==
    {Request("read", ri, id, NoQuery, h, NoBodySent) :
        ri \in DOMAIN Registry, id \in IDs, h \in Headers}
CreateRequests ==
    {Request("create", ri, "", NoQuery, h, b) :
        ri \in DOMAIN Registry, b \in Bodies, h \in Headers}
UpdateRequests ==
    {Request("update", ri, id, NoQuery, h, b) :
        ri \in DOMAIN Registry, id \in IDs, b \in Bodies, h \in Headers}
DeleteRequests ==
    {Request("delete", ri, id, NoQuery, h, NoBodySent) :
        ri \in DOMAIN Registry, id \in IDs, h \in Headers}

\* The page[...] values of the linked-collection GETs served: every
\* combination of present and absent keys, with a zero, a one and a
\* non-numeric value in each pair.
LinkedQueryStrs == {<<>>, <<"0">>, <<"1">>, <<"a">>}
LinkedQueries ==
    {q \in Queries : \A k \in PageKeys : q[k] \in LinkedQueryStrs}

\* The requests on the routes of relations, read off the route table.
LinkedRequests ==
    {RelationRequest("linked", rt.res, id, rt.relation, q, h, NoBodySent) :
        rt \in {rt \in routes : rt.handler = "linked"},
        id \in IDs, q \in LinkedQueries, h \in Headers}

ReadRelationRequests ==
    {RelationRequest("readRelation", rt.res, id, rt.relation, NoQuery, h, NoBodySent) :
        rt \in {rt \in routes : rt.handler = "readRelation"},
        id \in IDs, h \in Headers}

\* The bodies of the relationship PATCH, POST and DELETE requests served: no
\* body, a document without data, data of another type, and every array of
\* up to MaxEntries entries, each a non-object, an object without a string
\* id, or an object with one.
Entries == {Entry(FALSE, ""), Entry(TRUE, "")} \cup {Entry(TRUE, id) : id \in IDs}
RECURSIVE Arrays(_)
Arrays(n) ==
    IF n = 0 THEN {<<>>}
    ELSE Arrays(n - 1) \cup {Append(a, e) : a \in {a \in Arrays(n - 1) : Len(a) = n - 1},
                                            e \in Entries}
RelationBodies ==
    {NoBodySent, Body(TRUE, "absent", {}, TRUE, <<>>), Body(TRUE, "scalar", {}, TRUE, <<>>),
     Body(TRUE, "object", {"id", "type"}, TRUE, <<>>)}
    \cup {ArrayBody(a) : a \in Arrays(MaxEntries)}

ReplaceRelationRequests ==
    {RelationRequest("replaceRelation", rt.res, id, rt.relation, NoQuery, h, b) :
        rt \in {rt \in routes : rt.handler = "replaceRelation"},
        id \in IDs, h \in Headers, b \in RelationBodies}

AddToManyRequests ==
    {RelationRequest("addToMany", rt.res, id, rt.relation, NoQuery, h, b) :
        rt \in {rt \in routes : rt.handler = "addToMany"},
        id \in IDs, h \in Headers, b \in RelationBodies}

DeleteToManyRequests ==
    {RelationRequest("deleteToMany", rt.res, id, rt.relation, NoQuery, h, b) :
        rt \in {rt \in routes : rt.handler = "deleteToMany"},
        id \in IDs, h \in Headers, b \in RelationBodies}

RelationMutationRequests ==
    ReplaceRelationRequests \cup AddToManyRequests \cup DeleteToManyRequests

Requests ==
    OptionsCollectionRequests \cup OptionsItemRequests \cup IndexRequests
    \cup ReadRequests \cup CreateRequests \cup UpdateRequests \cup DeleteRequests

\* The router matches an incoming request to a route of a registered
\* resource; its handler then runs once, on a fresh response writer.
Receive ==
    /\ pc = "idle"
    /\ \E r \in Requests \cup LinkedRequests \cup ReadRelationRequests
                \cup RelationMutationRequests : req' = r
    /\ pc' = "routed"
    /\ UNCHANGED <<resources, routes, calls, w, encoding, panicked, err, selected, httpErrs, args, ret, threads, heap>>

\* The map iterations of one request: one per use of selectContentMarshaler
\* its route can make (decoding the body, encoding the response, encoding an
\* error).
Iterations(marshalers, uses) == [uses -> Orders(marshalers)]

\* The outcomes drawn for a collection fetch: those of the operation the
\* request's pagination shape leads to; the other operation is not reached.
FetchOutcomes(r) ==
    IF isValid(newPaginationQueryParams(r.query))
    THEN [pf : PaginatedFindAllOutcomes, fa : {Ok(<<>>, 0)}]
    ELSE [pf : {Ok(<<>>, 0)}, fa : FindAllOutcomes]

\* The route closure of addResource: run the handler and hand a returned
\* error to handleError, whose range over the marshalers goes in order.
Routed(route) == pc = "routed" /\ req.route = route

Serve(route, out, order) ==
    /\ Routed(route)
    /\ pc' = "done"
    /\ calls' = out.calls
    /\ encoding' = out.encoding
    /\ panicked' = out.panic
    /\ err' = out.err
    /\ w' = IF ~out.panic /\ out.err # NoErr
            THEN handleError(out.err, out.w, req, resources[req.res].marshalers, order)
            ELSE out.w
    /\ selected' =
          IF ~out.panic /\ out.err # NoErr
          THEN Append(out.selected,
                      Selection("error", selectContentMarshaler(
                                    req, resources[req.res].marshalers, order)))
          ELSE out.selected
    /\ UNCHANGED <<resources, routes, req, httpErrs, args, ret, threads, heap>>

\* OPTIONS <prefix><name>
OptionsCollection == Serve("optionsCollection", optionsCollection(w), <<>>)

\* OPTIONS <prefix><name>/:id
OptionsItem == Serve("optionsItem", optionsItem(w), <<>>)

\* GET <prefix><name>
GetCollection ==
    /\ Routed("index")
    /\ \E fetch \in FetchOutcomes(req), enc \in EncodeOutcomes,
          it \in Iterations(resources[req.res].marshalers, {"enc", "err"}) :
           Serve("index", handleIndex(req.res, resources[req.res], req, w,
                                      [pf |-> fetch.pf, fa |-> fetch.fa, enc |-> enc,
                                       encOrder |-> it["enc"]]),
                 it["err"])

\* GET <prefix><name>/:id/relationships/<rel>
GetRelation ==
    /\ Routed("readRelation")
    /\ \E fo \in FindOneOutcomes, doc \in Docs, enc \in {"ok", "Marshal"},
          it \in Iterations(resources[req.res].marshalers, {"enc", "err"}) :
           Serve("readRelation",
                 handleReadRelation(req.res, resources[req.res], req, w, req.relation,
                                    [findOne |-> fo, doc |-> doc, enc |-> enc,
                                     encOrder |-> it["enc"]]),
                 it["err"])

\* PATCH <prefix><name>/:id/relationships/<rel>
PatchRelation ==
    /\ Routed("replaceRelation")
    /\ \E fo \in FindOneOutcomes, up \in UpdateOutcomes, relErr \in BOOLEAN,
          it \in Iterations(resources[req.res].marshalers, {"dec", "err"}) :
           Serve("replaceRelation",
                 handleReplaceRelation(req.res, resources[req.res], req, w, req.relation,
                                       [findOne |-> fo, update |-> up, relErr |-> relErr,
                                        decOrder |-> it["dec"]]),
                 it["err"])

\* POST <prefix><name>/:id/relationships/<rel>
PostRelation ==
    /\ Routed("addToMany")
    /\ \E fo \in FindOneOutcomes, up \in UpdateOutcomes, editable \in BOOLEAN,
          it \in Iterations(resources[req.res].marshalers, {"dec", "err"}) :
           Serve("addToMany",
                 handleAddToManyRelation(req.res, resources[req.res], req, w, req.relation,
                                         [findOne |-> fo, update |-> up,
                                          editable |-> editable, decOrder |-> it["dec"]]),
                 it["err"])

\* DELETE <prefix><name>/:id/relationships/<rel>
DeleteRelation ==
    /\ Routed("deleteToMany")
    /\ \E fo \in FindOneOutcomes, up \in UpdateOutcomes, editable \in BOOLEAN,
          it \in Iterations(resources[req.res].marshalers, {"dec", "err"}) :
           Serve("deleteToMany",
                 handleDeleteToManyRelation(req.res, resources[req.res], req, w,
                                            req.relation,
                                            [findOne |-> fo, update |-> up,
                                             editable |-> editable,
                                             decOrder |-> it["dec"]]),
                 it["err"])

\* GET <prefix><name>/:id/<rel>
GetLinked ==
    /\ Routed("linked")
    /\ \E fetch \in FetchOutcomes(req), enc \in EncodeOutcomes,
          it \in Iterations(resources[req.res].marshalers, {"enc", "err"}) :
           Serve("linked", handleLinked(resources, req.res, resources[req.res], req, w,
                                        req.relation,
                                        [pf |-> fetch.pf, fa |-> fetch.fa, enc |-> enc,
                                         encOrder |-> it["enc"]]),
                 it["err"])

\* GET <prefix><name>/:id
GetItem ==
    /\ Routed("read")
    /\ \E fo \in FindOneOutcomes, enc \in EncodeOutcomes,
          it \in Iterations(resources[req.res].marshalers, {"enc", "err"}) :
           Serve("read", handleRead(req.res, resources[req.res], req, w,
                                    [findOne |-> fo, enc |-> enc, encOrder |-> it["enc"]]),
                 it["err"])

\* POST <prefix><name>
PostCollection ==
    /\ Routed("create")
    /\ \E cr \in CreateOutcomes, fo \in FindOneOutcomes, enc \in EncodeOutcomes,
          it \in Iterations(resources[req.res].marshalers, {"dec", "enc", "err"}) :
           Serve("create", handleCreate(req.res, resources[req.res], req, w, ApiPrefix,
                                        [create |-> cr, findOne |-> fo, enc |-> enc,
                                         decOrder |-> it["dec"], encOrder |-> it["enc"]]),
                 it["err"])

\* PATCH <prefix><name>/:id
PatchItem ==
    /\ Routed("update")
    /\ \E fo \in FindOneOutcomes, up \in UpdateOutcomes, merged \in BOOLEAN,
          it \in Iterations(resources[req.res].marshalers, {"dec", "err"}) :
           Serve("update", handleUpdate(req.res, resources[req.res], req, w,
                                        [findOne |-> fo, update |-> up, merged |-> merged,
                                         decOrder |-> it["dec"]]),
                 it["err"])

\* DELETE <prefix><name>/:id
DeleteItem ==
    /\ Routed("delete")
    /\ \E de \in DeleteOutcomes, it \in Iterations(resources[req.res].marshalers, {"err"}) :
           Serve("delete", handleDelete(req.res, resources[req.res], req, w, [delete |-> de]),
                 it["err"])

----------------------------------------------------------------------------
\* Direct calls of the pagination functions.

NoArgs == [p |-> NoQuery, count |-> 0, header |-> NoHeader,
           marshalers |-> DefaultContentMarshalers, order |-> <<JSONAPI>>,
           prototypes |-> <<>>]
NoRet == [fn |-> "none", valid |-> FALSE, result |-> NoLinks, err |-> "nil", panic |-> FALSE,
          marshaler |-> "", contentType |-> ""]

\* The page[...] strings drawn: empty, non-numeric, signed, 0..MaxVal, with a
\* leading zero, the largest value that fits and the first that does not.
PageStrs ==
    {<<>>, <<"a">>, <<"-", "1">>}
    \cup {FormatUint(v) : v \in 0..MaxVal}
    \cup {<<"0">> \o FormatUint(v) : v \in 0..1}
    \cup {FormatUint(MaxUint), FormatUint(MaxUint + 1)}

PaginationParams ==
    {[number |-> n, size |-> s, offset |-> o, limit |-> l] :
        n \in PageStrs, s \in PageStrs, o \in Present, l \in Present}
    \cup {[number |-> n, size |-> s, offset |-> o, limit |-> l] :
        n \in Present, s \in Present, o \in PageStrs, l \in PageStrs}

CallIsValid ==
    /\ ret.fn = "none"
    /\ ret' = [NoRet EXCEPT !.fn = "isValid", !.valid = isValid(args.p)]
    /\ UNCHANGED <<resources, routes, req, calls, w, encoding, panicked, err, selected, pc, httpErrs, args, threads, heap>>

CallGetLinks ==
    /\ ret.fn = "none"
    /\ LET l == getLinks(args.p, args.p, args.count)
       IN  ret' = [NoRet EXCEPT !.fn = "getLinks", !.result = l.result,
                                !.err = l.err, !.panic = l.panic]
    /\ UNCHANGED <<resources, routes, req, calls, w, encoding, panicked, err, selected, pc, httpErrs, args, threads, heap>>

----------------------------------------------------------------------------
\* Direct calls of selectContentMarshaler.

XML == "application/xml"
TextPlain == "text/plain"
ImagePNG == "image/png"

\* The marshaler maps an API is configured with (NewAPIWithMarshalers): every
\* non-empty choice among three content types, and one whose JSON:API
\* marshaler is not the built-in one.
MarshalerMaps ==
    {[ct \in cts |-> CASE ct = JSONAPI -> "JSONContentMarshaler"
                       [] ct = XML -> "XMLContentMarshaler"
                       [] OTHER -> "TextContentMarshaler"] :
        cts \in (SUBSET {JSONAPI, XML, TextPlain}) \ {{}}}
    \cup {(JSONAPI :> "CustomJSONMarshaler") @@ (XML :> "XMLContentMarshaler")}

\* The Accept and Content-Type headers of the requests drawn.
NegotiationHeaders ==
    {[k \in ks |-> IF k = "Accept" THEN a ELSE c] :
        ks \in SUBSET {"Accept", "Content-Type"},
        a \in {JSONAPI, XML, TextPlain, ImagePNG, "*/*"},
        c \in {JSONAPI, XML, ImagePNG}}

CallSelectContentMarshaler ==
    /\ ret.fn = "none"
    /\ LET sel == selectContentMarshaler([header |-> args.header],
                                         args.marshalers, args.order)
       IN  ret' = [NoRet EXCEPT !.fn = "selectContentMarshaler",
                                !.marshaler = sel.marshaler,
                                !.contentType = sel.contentType]
    /\ UNCHANGED <<resources, routes, req, calls, w, encoding, panicked, err, selected, pc, httpErrs, args, threads, heap>>

----------------------------------------------------------------------------
\* Building structured errors.

\* The errors under construction: the one of the test and a second one.
ErrNames == {"httpErr", "other"}

NoAppend == [parent |-> "", before |-> 0, sub |-> 0]

NewHTTPErrors ==
    [pool |-> [n \in ErrNames |-> httpError(NewHTTPError("hi", 0))],
     appends |-> [n \in ErrNames |-> 0],
     last |-> NoAppend]

\* parent.AddHTTPError(sub), where sub is the current value of any error
\* under construction, parent itself included.
CallAddHTTPError ==
    /\ httpErrs.appends["httpErr"] + httpErrs.appends["other"] < MaxAppends
    /\ \E parent \in ErrNames, sub \in ErrNames :
          httpErrs' =
              [pool |-> [httpErrs.pool EXCEPT
                           ![parent] = AddHTTPError(@, httpErrs.pool[sub])],
               appends |-> [httpErrs.appends EXCEPT ![parent] = @ + 1],
               last |-> [parent |-> parent,
                         before |-> httpErrs.pool[parent].errorsCount,
                         sub |-> httpErrs.pool[sub].errorsCount]]
    /\ UNCHANGED <<resources, routes, req, calls, w, encoding, panicked, err, selected, pc, args, ret, threads, heap>>

----------------------------------------------------------------------------
\* Specifications.

\* The goroutines serving requests at the same time, one request each.
Goroutines == {"g1", "g2"}

\* A goroutine before its request: no request, and nil for the Request value
\* of buildRequest, the decoded body and the copy of the fetched object.
NoThread ==
    [pc |-> "idle", req |-> NoRequest, request |-> 0, body |-> 0, copy |-> 0,
     oldObj |-> "", calls |-> <<>>]
NoThreads == [g \in Goroutines |-> NoThread]

\* No request has been received.
InitRequest ==
    /\ req = NoRequest
    /\ calls = <<>>
    /\ w = NewResponseWriter
    /\ encoding = <<>>
    /\ panicked = FALSE
    /\ err = NoErr
    /\ selected = <<>>
    /\ pc = "idle"

\* The state of a server configured with marshalers, before its first request.
InitServerWith(marshalers) ==
    /\ resources = Server(marshalers).resources
    /\ routes = Server(marshalers).routes
    /\ InitRequest

\* A server built with NewAPI: the default marshalers.
InitServer == InitServerWith(DefaultContentMarshalers)

\* A server built with NewAPIWithMarshalers and two marshalers.
TwoMarshalers ==
    (JSONAPI :> "JSONContentMarshaler") @@ ("application/xml" :> "XMLContentMarshaler")

Init ==
    /\ InitServer
    /\ httpErrs = NewHTTPErrors
    /\ threads = NoThreads
    /\ heap = <<>>
    /\ args = NoArgs
    /\ ret = NoRet

Next ==
    \/ Receive
    \/ OptionsCollection
    \/ OptionsItem
    \/ GetCollection
    \/ GetItem
    \/ GetLinked
    \/ GetRelation
    \/ PostCollection
    \/ PatchItem
    \/ DeleteItem
    \/ PatchRelation
    \/ PostRelation
    \/ DeleteRelation

Spec == Init /\ [][Next]_vars

InitMarshalers ==
    /\ InitServerWith(TwoMarshalers)
    /\ httpErrs = NewHTTPErrors
    /\ threads = NoThreads
    /\ heap = <<>>
    /\ args = NoArgs
    /\ ret = NoRet

\* The same server and requests, with two marshalers configured.
SpecMarshalers == InitMarshalers /\ [][Next]_vars

InitPagination ==
    /\ InitServer
    /\ httpErrs = NewHTTPErrors
    /\ threads = NoThreads
    /\ heap = <<>>
    /\ args \in {[NoArgs EXCEPT !.p = p, !.count = n] :
                    p \in PaginationParams, n \in 0..MaxCount}
    /\ ret = NoRet

NextPagination ==
    \/ CallIsValid
    \/ CallGetLinks

SpecPagination == InitPagination /\ [][NextPagination]_vars

InitNegotiation ==
    /\ InitServer
    /\ httpErrs = NewHTTPErrors
    /\ threads = NoThreads
    /\ heap = <<>>
    /\ args \in {[NoArgs EXCEPT !.header = h, !.marshalers = m, !.order = o] :
                    h \in NegotiationHeaders, m \in MarshalerMaps,
                    o \in UNION {Orders(mm) : mm \in MarshalerMaps}}
    /\ args.order \in Orders(args.marshalers)
    /\ ret = NoRet

NextNegotiation == CallSelectContentMarshaler

SpecNegotiation == InitNegotiation /\ [][NextNegotiation]_vars

NextErrors == CallAddHTTPError

SpecErrors == Init /\ [][NextErrors]_vars

\* Registration on a fresh API: up to MaxResources calls of AddResource, each
\* with a prototype of another type (the router refuses a path registered
\* twice), before any request is served. A panic of AddResource ends the
\* program.
RelationLists ==
    {<<>>, <<Reference("author", "users")>>, <<Reference("comments", "comments")>>,
     <<Reference("author", "users"), Reference("comments", "comments")>>}
Prototypes ==
    {Prototype(type, kind, references, editToMany) :
        type \in {"Post", "Comment", "User"}, kind \in {"struct", "ptr", "slice"},
        references \in RelationLists, editToMany \in BOOLEAN}
Sources == {{}, OptionalCaps}

CallAddResource ==
    /\ pc = "idle"
    /\ ~panicked
    /\ Len(resources) < MaxResources
    /\ \E prototype \in Prototypes, source \in Sources :
          /\ \A i \in DOMAIN resources :
                resources[i].name # Jsonify(Pluralize(prototype.type))
          /\ LET api == AddResource([NewAPIWithMarshalers(DefaultContentMarshalers)
                                        EXCEPT !.resources = resources, !.routes = routes],
                                    prototype, source)
             IN  /\ resources' = api.resources
                 /\ routes' = api.routes
                 /\ panicked' = api.panic
                 /\ args' = IF api.panic THEN args
                            ELSE [args EXCEPT !.prototypes = Append(@, prototype)]
    /\ UNCHANGED <<req, calls, w, encoding, err, selected, pc, httpErrs, ret, threads, heap>>

InitRegistration ==
    /\ resources = NewAPIWithMarshalers(DefaultContentMarshalers).resources
    /\ routes = NewAPIWithMarshalers(DefaultContentMarshalers).routes
    /\ InitRequest
    /\ httpErrs = NewHTTPErrors
    /\ threads = NoThreads
    /\ heap = <<>>
    /\ args = NoArgs
    /\ ret = NoRet

NextRegistration == CallAddResource

SpecRegistration == InitRegistration /\ [][NextRegistration]_vars

----------------------------------------------------------------------------
\* Requests served concurrently: each goroutine runs the statements of its
\* handler one at a time, and what a statement allocates lives in the heap.

\* An allocation that hands out the same Request value to every caller.
NewRequestShared(h) == 1

\* The address of the Request value and parameter map buildRequest makes:
\* one that no earlier allocation returned.
NewRequest(h) == Len(h) + 1

\* The address reflect.New and the decoder return: a fresh one.
New(h) == Len(h) + 1

Store(h, loc, v) == IF loc \in DOMAIN h THEN [h EXCEPT ![loc] = v] ELSE Append(h, v)

\* The requests served concurrently: collection GETs, linked-collection GETs
\* and relationship POSTs, without headers, with and without a page.
ConcurrentQueries == {NoQuery, [NoQuery EXCEPT !.number = <<"1">>, !.size = <<"1">>]}
ConcurrentRequests ==
    {Request("index", ri, "", q, NoHeader, NoBodySent) :
        ri \in DOMAIN resources, q \in ConcurrentQueries}
    \cup {RelationRequest("linked", rt.res, id, rt.relation, q, NoHeader, NoBodySent) :
            rt \in {rt \in routes : rt.handler = "linked"},
            id \in IDs, q \in ConcurrentQueries}
    \cup {RelationRequest("addToMany", rt.res, id, rt.relation, NoQuery, NoHeader,
                          ArrayBody(<<Entry(TRUE, new)>>)) :
            rt \in {rt \in routes : rt.handler = "addToMany"},
            id \in IDs, new \in IDs}

Run(g, t) ==
    /\ threads' = [threads EXCEPT ![g] = t]
    /\ UNCHANGED <<resources, routes, req, calls, w, encoding, panicked, err, selected, pc, httpErrs, args, ret>>

\* The router starts a goroutine for a request.
Accept(g) ==
    /\ threads[g].pc = "idle"
    /\ \E r \in ConcurrentRequests :
          Run(g, [threads[g] EXCEPT !.pc = "routed", !.req = r])
    /\ UNCHANGED heap

\* buildRequest(r): a new Request with a new parameter map.
BuildRequest(g) ==
    /\ threads[g].pc = "routed"
    /\ LET loc == NewRequest(heap)
       IN  /\ heap' = Store(heap, loc, buildRequest(threads[g].req))
           /\ Run(g, [threads[g] EXCEPT !.pc = "built", !.request = loc])

\* handleLinked: request.QueryParams[res.name+"ID"] = []string{id}, when the
\* target of the relation is registered.
InjectFilter(g) ==
    LET t == threads[g]
    IN  /\ t.pc = "built"
        /\ t.req.route = "linked"
        /\ linkedResource(resources, t.req.relation) # 0
        /\ heap' = [heap EXCEPT ![t.request].QueryParams =
                        (IDKey(resources[t.req.res].name) :> <<t.req.id>>) @@ @]
        /\ Run(g, [t EXCEPT !.pc = "filtered"])

\* The backend calls of a handler, each handed the Request value as it is
\* in the heap when the call is made.
Handed(cs, loc) == [i \in DOMAIN cs |-> [cs[i] EXCEPT !.request = heap[loc]]]

\* handleIndex and handleLinked: FindAll or PaginatedFindAll with the
\* Request built (a linked GET whose target is not registered calls none).
Fetch(g) ==
    LET t == threads[g]
        res == resources[t.req.res]
        env == [pf |-> Ok(<<>>, 0), fa |-> Ok(<<>>, 0), enc |-> "ok",
                encOrder |-> CHOOSE o \in Orders(res.marshalers) : TRUE]
        out == IF t.req.route = "index"
               THEN handleIndex(t.req.res, res, t.req, NewResponseWriter, env)
               ELSE handleLinked(resources, t.req.res, res, t.req, NewResponseWriter,
                                 t.req.relation, env)
    IN  /\ \/ t.pc = "built" /\ t.req.route = "index"
           \/ t.pc = "filtered"
           \/ t.pc = "built" /\ t.req.route = "linked"
                              /\ linkedResource(resources, t.req.relation) = 0
        /\ Run(g, [t EXCEPT !.pc = "done", !.calls = Handed(out.calls, t.request)])
        /\ UNCHANGED heap

\* handleAddToManyRelation: FindOne with the Request built.
FetchOne(g) ==
    LET t == threads[g]
    IN  /\ t.pc = "built"
        /\ t.req.route = "addToMany"
        /\ \E obj \in Objects :
              Run(g, [t EXCEPT !.pc = "fetched", !.oldObj = obj,
                                !.calls = Handed(<<Call("FindOne", t.req.res, buildRequest(t.req),
                                                        <<t.req.id>>, Ok(<<obj>>, 0))>>,
                                                 t.request)])
        /\ UNCHANGED heap

\* unmarshalRequest: the decoded body, a new map.
Decode(g) ==
    LET t == threads[g]
        loc == New(heap)
    IN  /\ t.pc = "fetched"
        /\ heap' = Store(heap, loc, t.req.body)
        /\ Run(g, [t EXCEPT !.pc = "decoded", !.body = loc])

\* getRelationUpdateObjects: reflect.New and a copy of the fetched object.
CopyObject(g) ==
    LET t == threads[g]
        loc == New(heap)
    IN  /\ t.pc = "decoded"
        /\ heap' = Store(heap, loc, [of |-> t.oldObj, edit |-> <<>>])
        /\ Run(g, [t EXCEPT !.pc = "copied", !.copy = loc])

\* The loop over the decoded entries and targetObj.AddToManyIDs on the copy.
EditCopy(g) ==
    LET t == threads[g]
    IN  /\ t.pc = "copied"
        /\ heap' = [heap EXCEPT ![t.copy].edit =
                        Edit("AddToManyIDs", t.req.relation.Name,
                             CollectIDs(heap[t.body].entries).ids)]
        /\ Run(g, [t EXCEPT !.pc = "edited"])

\* res.source.Update(updateObj, buildRequest(r)): the struct read out of
\* the copy before the edit, or the pointer to the copy.
CallUpdate(g) ==
    LET t == threads[g]
        objs == getRelationUpdateObjects(t.oldObj)
    IN  /\ t.pc = "edited"
        /\ Run(g, [t EXCEPT !.pc = "done",
                              !.calls = Append(@, Call("Update", t.req.res, buildRequest(t.req),
                                                       UpdateArg(objs, heap[t.copy].edit),
                                                       Ok(<<>>, 0)))])
        /\ UNCHANGED heap

InitConcurrent == Init

NextConcurrent ==
    \E g \in Goroutines :
        \/ Accept(g)
        \/ BuildRequest(g)
        \/ InjectFilter(g)
        \/ Fetch(g)
        \/ FetchOne(g)
        \/ Decode(g)
        \/ CopyObject(g)
        \/ EditCopy(g)
        \/ CallUpdate(g)

SpecConcurrent == InitConcurrent /\ [][NextConcurrent]_vars

----------------------------------------------------------------------------
\* Properties of the pagination functions, checked under SpecPagination.

\* The page keys whose value is present (non-empty) in the call's parameters.
PresentKeys == {k \in PageKeys : args.p[k] # <<>>}

\* C2: for every combination of present and absent page keys, isValid returns
\* true if and only if exactly one complete pair is present and the other
\* pair is entirely absent.
C2_IsValidIffOneCompletePair ==
    ret.fn = "isValid" =>
        (ret.valid <=> PresentKeys \in {{"number", "size"}, {"offset", "limit"}})

\* A call of isValid that accepted the offset/limit shape.
C2_Witness ==
    /\ ret.fn = "isValid"
    /\ ret.valid
    /\ PresentKeys = {"offset", "limit"}

\* getLinks returned links: no parse error, no panic.
LinksReturned == ret.fn = "getLinks" /\ ret.err = "nil" /\ ~ret.panic

\* The value a link carries under a page key, -1 when it is not an unsigned decimal.
Carried(link, key) ==
    IF link \in DOMAIN ret.result /\ ParseUint(ret.result[link][key]).err = "nil"
    THEN ParseUint(ret.result[link][key]).val
    ELSE -1

Emitted(link) == link \in DOMAIN ret.result

\* C3: in number/size mode, for every page[number] that parses to n, first and
\* prev are emitted if and only if n # 1; first carries page[number]=1 and
\* prev carries page[number]=n-1.
C3_FirstPrevIffNotPageOne ==
    (LinksReturned /\ args.p.number # <<>>) =>
        LET n == ParseUint(args.p.number).val
        IN  /\ Emitted("first") <=> n # 1
            /\ Emitted("prev") <=> n # 1
            /\ Emitted("first") => Carried("first", "number") = 1
            /\ Emitted("prev") => Carried("prev", "number") = n - 1

\* C4: in number/size mode, for every page number n, page size s and count c
\* that are non-negative integers, getLinks computes totalPages = ceil(c / s)
\* and emits next and last if and only if n # totalPages; next carries
\* page[number]=n+1 and last carries page[number]=totalPages.
C4_NextLastIffNotLastPage ==
    (/\ ret.fn = "getLinks"
     /\ args.p.number # <<>>
     /\ ParseUint(args.p.number).err = "nil"
     /\ ParseUint(args.p.size).err = "nil") =>
        LET n == ParseUint(args.p.number).val
            sz == ParseUint(args.p.size).val
            c == args.count
            totalPages == CHOOSE t \in 0..c : t * sz >= c /\ (t = 0 \/ (t - 1) * sz < c)
        IN  /\ LinksReturned
            /\ sz # 0
            /\ Emitted("next") <=> n # totalPages
            /\ Emitted("last") <=> n # totalPages
            /\ Emitted("next") => Carried("next", "number") = n + 1
            /\ Emitted("last") => Carried("last", "number") = totalPages

\* C5: in offset/limit mode, for every page[offset] and page[limit] that parse,
\* first and prev are emitted if and only if offset # 0; first carries
\* page[offset]=0 and prev carries page[offset]=max(0, offset-limit).
C5_FirstPrevIffOffsetNotZero ==
    (LinksReturned /\ args.p.number = <<>>) =>
        LET offset == ParseUint(args.p.offset).val
            limit == ParseUint(args.p.limit).val
        IN  /\ Emitted("first") <=> offset # 0
            /\ Emitted("prev") <=> offset # 0
            /\ Emitted("first") => Carried("first", "offset") = 0
            /\ Emitted("prev") =>
                 Carried("prev", "offset") = IF offset - limit > 0 THEN offset - limit ELSE 0

\* C6: in offset/limit mode, next and last are emitted if and only if
\* offset+limit < count; next carries page[offset]=offset+limit and last
\* carries page[offset]=count-limit, a non-negative offset smaller than count.
C6_NextLastIffMoreEntries ==
    (LinksReturned /\ args.p.number = <<>>) =>
        LET offset == ParseUint(args.p.offset).val
            limit == ParseUint(args.p.limit).val
        IN  /\ Emitted("next") <=> offset + limit < args.count
            /\ Emitted("last") <=> offset + limit < args.count
            /\ Emitted("next") => Carried("next", "offset") = offset + limit
            /\ Emitted("last") =>
                 /\ Carried("last", "offset") = args.count - limit
                 /\ Carried("last", "offset") >= 0
                 /\ Carried("last", "offset") < args.count

----------------------------------------------------------------------------
\* Properties of the route handlers, checked under Spec.

Answered(route) == pc = "done" /\ req.route = route

\* The backend operations invoked for the request.
Invoked == {calls[i].op : i \in DOMAIN calls}

\* A complete valid pagination shape: one pair present, the other absent.
CompleteShape(q) ==
    {k \in PageKeys : q[k] # <<>>} \in {{"number", "size"}, {"offset", "limit"}}

\* The response is exactly one error status with an error document.
ErrorResponse(status) ==
    /\ ~panicked
    /\ w.status = <<status>>
    /\ w.body.kind = "error"

\* C1: collection GET chooses its backend operation from the pagination shape
\* alone: with a complete shape PaginatedFindAll and never FindAll, and 404
\* with no backend call when the backend lacks PaginatedFindAll; without one
\* FindAll and never PaginatedFindAll, and 404 with the FindAll detail when the
\* backend lacks FindAll (so also for a backend of the four mandatory
\* operations only).
C1_IndexDispatchByShape ==
    Answered("index") =>
        LET source == resources[req.res].source
        IN  IF CompleteShape(req.query)
            THEN IF "PaginatedFindAll" \in source
                 THEN Invoked = {"PaginatedFindAll"} /\ Len(calls) = 1
                 ELSE /\ calls = <<>>
                      /\ ErrorResponse(StatusNotFound)
                      /\ w.body.detail = "Resource does not implement the PaginatedFindAll interface"
            ELSE IF "FindAll" \in source
                 THEN Invoked = {"FindAll"} /\ Len(calls) = 1
                 ELSE /\ calls = <<>>
                      /\ ErrorResponse(StatusNotFound)
                      /\ w.body.detail = "Resource does not implement the FindAll interface"

\* A paginated GET on a backend with FindAll but without PaginatedFindAll,
\* refused with 404 and no backend call.
C1_Witness ==
    /\ Answered("index")
    /\ CompleteShape(req.query)
    /\ resources[req.res].source = {"FindAll"}
    /\ calls = <<>>
    /\ w.status = <<StatusNotFound>>

\* A string that is not a non-negative decimal integer.
NotANumber(s) == s = <<>> \/ \E i \in 1..Len(s) : ~IsDigit(s[i])

PairInUse(q) == IF q.number # <<>> THEN {"number", "size"} ELSE {"offset", "limit"}

BadPageParameter(q) == \E k \in PairInUse(q) : NotANumber(q[k])

\* C7: when a parameter of the pagination pair in use is not a valid
\* non-negative integer, getLinks returns a parse error and the paginated
\* collection GET ends in an error response, never in a 200 with links.
C7_BadPageParameterIsAnError ==
    (Answered("index") /\ CompleteShape(req.query) /\ BadPageParameter(req.query)) =>
        /\ ~panicked
        /\ err # NoErr
        /\ Len(w.status) = 1
        /\ w.body.kind = "error"
        /\ ~w.body.paginated
        /\ w.body.links = NoLinks
        /\ (calls = <<>> \/ err.kind = "plain") => w.status[1] >= 400
        /\ (calls # <<>> /\ calls[1].out.err = NoErr) =>
              ErrorResponse(StatusInternalServerError) /\ w.body.detail = "syntax"

\* PaginatedFindAll succeeded, getLinks met page[size]=a and the answer is 500.
C7_Witness ==
    /\ Answered("index")
    /\ req.query.number = <<"1">>
    /\ req.query.size = <<"a">>
    /\ CompleteShape(req.query)
    /\ Invoked = {"PaginatedFindAll"}
    /\ calls[1].out.err = NoErr
    /\ w.status = <<StatusInternalServerError>>

\* The POST decoded to exactly one object, Create returned an id and the
\* FindOne that followed succeeded.
Created ==
    /\ Answered("create")
    /\ req.body.wellFormed /\ ~req.body.intoErr /\ Len(req.body.objs) = 1
    /\ Len(calls) = 2
    /\ calls[1].op = "Create" /\ calls[1].out.err = NoErr
    /\ calls[2].op = "FindOne" /\ calls[2].out.err = NoErr
    /\ calls[2].arg = calls[1].out.val

\* 201, Location <prefix><name>/<id>, and the object FindOne returned as body.
CreatedResponse ==
    /\ ~panicked
    /\ w.status = <<StatusCreated>>
    /\ w.header.Location = <<ApiPrefix, resources[req.res].name, "/", calls[1].out.val[1]>>
    /\ w.body.kind = "document"
    /\ w.body.data = calls[2].out.val

EncodingSucceeded == encoding # <<>> /\ \A i \in DOMAIN encoding : encoding[i].ok

C9_NotOneObjectIsRefused ==
    (/\ Answered("create")
     /\ req.body.wellFormed /\ ~req.body.intoErr
     /\ Len(req.body.objs) # 1) =>
        /\ ErrorResponse(StatusInternalServerError)
        /\ "Create" \notin Invoked
        /\ calls = <<>>
        /\ w.header.Location = NoLocation

\* A POST of two objects, refused.
C9_Witness ==
    /\ Answered("create")
    /\ req.body.wellFormed /\ ~req.body.intoErr
    /\ Len(req.body.objs) = 2
    /\ w.status = <<StatusInternalServerError>>

\* The detail the PATCH shape checks owe for a decoded document, "" when the
\* document has a data object with id and type.
MissingElement(b) ==
    IF b.data = "absent" THEN "missing mandatory data key."
    ELSE IF b.data # "object" THEN "data must contain an object."
    ELSE IF "id" \notin b.keys THEN "missing mandatory id key."
    ELSE IF "type" \notin b.keys THEN "missing mandatory type key."
    ELSE ""

\* The PATCH found its item and decoded its body.
PatchDecoded ==
    /\ Answered("update")
    /\ calls # <<>> /\ calls[1].op = "FindOne" /\ calls[1].out.err = NoErr
    /\ req.body.wellFormed

\* C10: a PATCH on an existing item whose body decodes answers 403 with the
\* detail of the first missing element and never invokes Update; Update is
\* invoked and 204 returned only when every shape check passes.
C10_PatchShapeChecks ==
    /\ (PatchDecoded /\ MissingElement(req.body) # "") =>
          /\ ErrorResponse(StatusForbidden)
          /\ w.body.detail = MissingElement(req.body)
          /\ "Update" \notin Invoked
    /\ (Answered("update") /\ ("Update" \in Invoked \/ StatusNoContent \in {w.status[i] : i \in DOMAIN w.status})) =>
          /\ PatchDecoded
          /\ MissingElement(req.body) = ""

\* A PATCH whose data object has an id but no type, answered 403.
C10_Witness ==
    /\ PatchDecoded
    /\ req.body.data = "object"
    /\ req.body.keys = {"id"}
    /\ w.status = <<StatusForbidden>>
    /\ w.body.detail = "missing mandatory type key."

----------------------------------------------------------------------------
\* Properties of the error path, checked under Spec.

\* The handler of the request returned an error to its route closure.
HandlerFailed == pc = "done" /\ ~panicked /\ err # NoErr

Is2xx(status) == status \in 200..299

\* The status handleError owes for an error.
StatusOf(e) == IF e.kind = "http" THEN e.status ELSE StatusInternalServerError

\* C11 as stated: for every error a route handler returns, the status written
\* is the error's own status when it is a structured HTTP error and 500 when
\* it is a plain error, and no handler error results in a 2xx status.
C11_ErrorStatusNever2xx ==
    HandlerFailed =>
        /\ w.status = <<StatusOf(err)>>
        /\ ~Is2xx(w.status[1])

\* C11 amended: the status written is the error's own status when it is a
\* structured HTTP error and 500 when it is a plain error; a handler error
\* results in a 2xx status only when it is a structured error that itself
\* carries a 2xx status.
C11_ErrorStatusIsOwnOr500 ==
    HandlerFailed =>
        /\ w.status = <<StatusOf(err)>>
        /\ w.body.kind = "error"
        /\ Is2xx(w.status[1]) => (err.kind = "http" /\ Is2xx(err.status))

\* A structured 403 returned by a handler and written as 403, and (in another
\* request) a plain error written as 500.
C11_Witness ==
    /\ HandlerFailed
    /\ err.kind = "http"
    /\ err.status = StatusForbidden
    /\ w.status = <<StatusForbidden>>

\* C15: within the handling of one request the marshaler that decodes the
\* body, the one that encodes a successful response and the one that encodes
\* an error response are the same marshaler, and the Content-Type header
\* written is the content type that marshaler was selected for, on every
\* route and on the error path.
C15_OneMarshalerPerRequest ==
    (pc = "done" /\ ~panicked) =>
        /\ \A i, j \in DOMAIN selected :
              /\ selected[i].marshaler = selected[j].marshaler
              /\ selected[i].contentType = selected[j].contentType
        /\ w.body # NoBody =>
              /\ selected # <<>>
              /\ w.body.by = selected[Len(selected)].marshaler
              /\ w.header.ContentType = selected[Len(selected)].contentType

\* The registered resource a linked-collection GET is about: the index of
\* the resource bearing the name of the relation's target, 0 when there is none.
Target ==
    IF \E i \in DOMAIN resources : resources[i].name = req.relation.Type
    THEN CHOOSE i \in DOMAIN resources : resources[i].name = req.relation.Type
    ELSE 0

\* The response to a linked GET whose target is not registered: 404 with the
\* document of the Not Found error, and no backend call.
LinkedNotFoundResponse ==
    /\ ~panicked
    /\ w.status = <<StatusNotFound>>
    /\ calls = <<>>

\* C16 as stated: a linked-collection GET whose relation targets a resource
\* name that is not in the registry results in a 404 response, and no backend
\* operation of any resource is invoked.
C16_UnknownTargetIs404 ==
    (Answered("linked") /\ Target = 0) => LinkedNotFoundResponse

\* C16 amended: the same when the Not Found document is encoded without
\* error; when its encoding fails the response is 500. No backend operation
\* is invoked either way.
C16_UnknownTargetIs404WhenEncoded ==
    (Answered("linked") /\ Target = 0) =>
        /\ calls = <<>>
        /\ ~panicked
        /\ IF EncodingSucceeded
           THEN /\ w.status = <<StatusNotFound>>
                /\ w.body.kind = "document"
                /\ err = NoErr
           ELSE ErrorResponse(StatusInternalServerError)

\* GET /v1/posts/1/likes: likes is not registered, answered 404.
C16_Witness ==
    /\ Answered("linked")
    /\ req.relation.Type = "likes"
    /\ Target = 0
    /\ w.status = <<StatusNotFound>>
    /\ w.body.kind = "document"
    /\ calls = <<>>

\* The relationship GET found its object; doc is the document encoded for it.
RelationRead ==
    /\ Answered("readRelation")
    /\ calls # <<>> /\ calls[1].out.err = NoErr
    /\ encoding # <<>>

\* An expected key is missing from the document.
MissingKey(doc) ==
    \/ doc.data = "absent"
    \/ doc.relationships = "absent"
    \/ doc.relation /\ (\/ doc.links = "absent"
                        \/ "self" \notin doc.linkKeys
                        \/ "related" \notin doc.linkKeys
                        \/ ~doc.relData)

\* The named relationship is absent from the document's relationships.
RelationAbsent(doc) ==
    doc.data # "absent" /\ doc.relationships # "absent" /\ ~doc.relation

\* C18: read-relationship-linkage on an existing object answers, for every
\* shape of encoded document, 500 "invalid object structure" when an expected
\* key is missing, 404 when the named relationship is absent from
\* relationships, and otherwise 200 with exactly {links:{self,related}, data};
\* no shape leads to any other outcome.
C18_ReadRelationOutcomes ==
    RelationRead =>
        LET doc == encoding[1].doc
        IN  /\ ~panicked
            /\ IF MissingKey(doc)
               THEN /\ ErrorResponse(StatusInternalServerError)
                    /\ w.body.detail = "Internal server error, invalid object structure"
               ELSE IF RelationAbsent(doc)
               THEN ErrorResponse(StatusNotFound)
               ELSE /\ w.status = <<StatusOK>>
                    /\ w.body.kind = "relationship"
                    /\ w.body.keys = {"links.self", "links.related", "data"}

\* How the encoding of the response went, as an outcome of the codec.
EncodeOutcome ==
    IF \E i \in DOMAIN encoding : ~encoding[i].ok
    THEN encoding[CHOOSE i \in DOMAIN encoding : ~encoding[i].ok].op
    ELSE "ok"

\* What a collection GET on the target answers to the same request, given the
\* same outcome of the backend call and of the encoding.
IndexOnTarget ==
    LET out == IF calls = <<>> THEN Ok(<<>>, 0) ELSE calls[1].out
        ran == handleIndex(Target, resources[Target], req, NewResponseWriter,
                           [pf |-> out, fa |-> out, enc |-> EncodeOutcome,
                            encOrder |-> CHOOSE o \in Orders(resources[Target].marshalers) : TRUE])
    IN  [ran EXCEPT !.w = IF ~ran.panic /\ ran.err # NoErr
                          THEN handleError(ran.err, ran.w, req, resources[Target].marshalers,
                                           CHOOSE o \in Orders(resources[Target].marshalers) : TRUE)
                          ELSE ran.w]

\* The parts of a response that do not depend on the marshaler selected.
Answer(w0) ==
    [status |-> w0.status, kind |-> w0.body.kind, data |-> w0.body.data,
     paginated |-> w0.body.paginated, links |-> w0.body.links, detail |-> w0.body.detail]

\* C17: a linked-collection GET on resource R with id X whose relation targets
\* registered resource T hands T's backend, never R's, the request's own
\* query parameters plus <R's name>ID = [X], and otherwise behaves as a
\* collection GET on T: PaginatedFindAll on T with a valid pagination shape
\* (404 if T lacks it), FindAll on T otherwise (404 if T lacks it).
C17_LinkedIsIndexOnTarget ==
    (Answered("linked") /\ Target # 0) =>
        /\ \A i \in DOMAIN calls :
              /\ calls[i].res = Target
              /\ calls[i].request.Header = req.header
              /\ DOMAIN calls[i].request.QueryParams
                    = DOMAIN buildRequest(req).QueryParams \cup {IDKey(resources[req.res].name)}
              /\ calls[i].request.QueryParams[IDKey(resources[req.res].name)] = <<req.id>>
              /\ \A k \in DOMAIN buildRequest(req).QueryParams :
                    calls[i].request.QueryParams[k] = buildRequest(req).QueryParams[k]
        /\ IF CompleteShape(req.query)
           THEN IF "PaginatedFindAll" \in resources[Target].source
                THEN Invoked = {"PaginatedFindAll"} /\ Len(calls) = 1
                ELSE calls = <<>> /\ ErrorResponse(StatusNotFound)
           ELSE IF "FindAll" \in resources[Target].source
                THEN Invoked = {"FindAll"} /\ Len(calls) = 1
                ELSE calls = <<>> /\ ErrorResponse(StatusNotFound)
        /\ panicked = IndexOnTarget.panic
        /\ err = IndexOnTarget.err
        /\ ~panicked => Answer(w) = Answer(IndexOnTarget.w)
        /\ {calls[i].op : i \in DOMAIN calls} = {IndexOnTarget.calls[i].op : i \in DOMAIN IndexOnTarget.calls}

\* GET /v1/posts/2/comments: FindAll of the comments backend is handed
\* postsID = [2] and its objects are answered with 200.
C17_Witness ==
    /\ Answered("linked")
    /\ resources[req.res].name = "posts"
    /\ req.id = "2"
    /\ Target # 0
    /\ resources[Target].name = "comments"
    /\ Len(calls) = 1
    /\ calls[1].op = "FindAll"
    /\ calls[1].res = Target
    /\ calls[1].request.QueryParams["postsID"] = <<"2">>
    /\ w.status = <<StatusOK>>

----------------------------------------------------------------------------
\* Properties of content negotiation, checked under SpecNegotiation.

\* The content types selectContentMarshaler may look up for the call's
\* headers: with Accept, the configured types it accepts, or the default
\* when there is none; else the Content-Type value; else none.
Resolvable ==
    LET configured == DOMAIN args.marshalers
        accepted == {ct \in configured :
                        args.header["Accept"] = "*/*" \/ args.header["Accept"] = ct}
    IN  IF "Accept" \in DOMAIN args.header
        THEN (IF accepted # {} THEN accepted ELSE {JSONAPI}) \cap configured
        ELSE IF "Content-Type" \in DOMAIN args.header
        THEN {args.header["Content-Type"]} \cap configured
        ELSE {}

\* C14: with an Accept header the result is a best match among the configured
\* content types, application/vnd.api+json when there is none, and
\* Content-Type is not consulted; else with a Content-Type header it is the
\* marshaler registered under that exact value; when neither resolves a
\* configured marshaler it is the built-in JSON marshaler with content type
\* application/vnd.api+json. Accept: application/vnd.api+json against the
\* default marshaler set resolves to the default marshaler.
C14_SelectionOrder ==
    ret.fn = "selectContentMarshaler" =>
        /\ IF Resolvable # {}
           THEN /\ ret.contentType \in Resolvable
                /\ ret.marshaler = args.marshalers[ret.contentType]
           ELSE /\ ret.contentType = JSONAPI
                /\ ret.marshaler = "JSONContentMarshaler"
        /\ ("Accept" \in DOMAIN args.header /\ args.header["Accept"] = JSONAPI
              /\ args.marshalers = DefaultContentMarshalers) =>
                 /\ ret.contentType = JSONAPI
                 /\ ret.marshaler = DefaultContentMarshalers[JSONAPI]

\* Accept names a type that is not configured and Content-Type one that is:
\* Content-Type is not consulted and the built-in JSON marshaler is used.
C14_Witness ==
    /\ ret.fn = "selectContentMarshaler"
    /\ "Accept" \in DOMAIN args.header /\ args.header["Accept"] = ImagePNG
    /\ "Content-Type" \in DOMAIN args.header /\ args.header["Content-Type"] = XML
    /\ args.marshalers = (XML :> "XMLContentMarshaler")
    /\ ret.marshaler = "JSONContentMarshaler"
    /\ ret.contentType = JSONAPI

----------------------------------------------------------------------------
\* Properties of the structured error tree, checked under SpecErrors.

RECURSIVE SumCounts(_)
SumCounts(subs) ==
    IF subs = <<>> THEN 0 ELSE Head(subs).errorsCount + SumCounts(Tail(subs))

\* Every node's count is 1 plus the sum of its immediate children's counts.
RECURSIVE CountsItselfAndChildren(_)
CountsItselfAndChildren(e) ==
    /\ e.errorsCount = 1 + SumCounts(e.errors)
    /\ \A i \in DOMAIN e.errors : CountsItselfAndChildren(e.errors[i])

C13_CountIsNumberOfAppends ==
    \A n \in ErrNames :
        httpErrs.appends[n] > 0 =>
            /\ httpErrs.pool[n].errorsCount = httpErrs.appends[n]
            /\ httpErrs.pool[n].errorsCount = Len(httpErrs.pool[n].errors)

\* A relationship POST or DELETE has been answered.
ToManyAnswered == Answered("addToMany") \/ Answered("deleteToMany")

\* The data of the request is missing, is not an array, or has an entry that
\* is not an object with a string id.
BadToManyData(b) ==
    \/ b.data # "array"
    \/ \E i \in DOMAIN b.entries : ~b.entries[i].object \/ b.entries[i].id = ""

\* C19: a relationship POST or DELETE whose data is missing, is not an array,
\* or has an entry without a string id fails with an error response (500 once
\* the object was fetched) and is all-or-nothing: neither AddToManyIDs or
\* DeleteToManyIDs nor the backend's Update is invoked, even when earlier
\* entries of the array were valid.
C19_BadEntryIsAllOrNothing ==
    (ToManyAnswered /\ BadToManyData(req.body)) =>
        /\ ~panicked
        /\ err # NoErr
        /\ w.status = <<StatusOf(err)>>
        /\ w.body.kind = "error"
        /\ calls[1].out.err = NoErr => ErrorResponse(StatusInternalServerError)
        /\ \A i \in DOMAIN calls : calls[i].op \notin EditOps \cup {"Update"}
        /\ Invoked = {"FindOne"}

\* POST /v1/posts/1/relationships/comments with data [{id: "1"}, {}]: the
\* first entry is valid, the second has no id; the object was fetched and
\* could be edited, and the answer is 500 with nothing edited or updated.
C19_Witness ==
    /\ Answered("addToMany")
    /\ req.relation.Name = "comments"
    /\ req.body.entries = <<Entry(TRUE, "1"), Entry(TRUE, "")>>
    /\ Len(calls) = 1
    /\ calls[1].op = "FindOne"
    /\ calls[1].out.err = NoErr
    /\ err = PlainError("no id field found inside data object")
    /\ ErrorResponse(StatusInternalServerError)

----------------------------------------------------------------------------
\* Properties of registration, checked under SpecRegistration.

\* The router holds a route of this method and path shape for a relation of
\* resource ri, bound to this handler.
HasRoute(method, ri, shape, rel, handler) ==
    \E rt \in routes :
        /\ rt.method = method
        /\ rt.path = Path(resources[ri].name, shape, rel.Name)
        /\ rt.handler = handler
        /\ rt.res = ri
        /\ rt.relation = rel

\* The routes of resource ri that are routes of a relation.
RelationRoutesOf(ri) == {rt \in routes : rt.res = ri /\ rt.path.rel # ""}

Declared(prototype) == {prototype.references[i] : i \in DOMAIN prototype.references}

\* Each declared relation of the prototype of resource ri has its two GET
\* routes and its PATCH route, and a prototype that declares none has no
\* relation route.
ReadAndReplaceRoutes(ri, prototype) ==
    /\ \A rel \in Declared(prototype) :
          /\ HasRoute("GET", ri, "relationships", rel, "readRelation")
          /\ HasRoute("GET", ri, "linked", rel, "linked")
          /\ HasRoute("PATCH", ri, "relationships", rel, "replaceRelation")
    /\ \A rt \in RelationRoutesOf(ri) : rt.relation \in Declared(prototype)
    /\ Declared(prototype) = {} => RelationRoutesOf(ri) = {}

HasEditRoutes(ri, rel) ==
    /\ HasRoute("POST", ri, "relationships", rel, "addToMany")
    /\ HasRoute("DELETE", ri, "relationships", rel, "deleteToMany")

NoEditRoute(ri, rel) ==
    \A rt \in RelationRoutesOf(ri) : rt.relation = rel => rt.method \notin {"POST", "DELETE"}

\* C20: at registration every declared relationship gets GET
\* .../relationships/<rel>, GET .../<rel> and PATCH .../relationships/<rel>;
\* with to-many edit support every declared relationship also gets POST and
\* DELETE on .../relationships/<rel>; without it there is no POST or DELETE
\* relationship route, and without declared relationships no relationship
\* route at all.
C20_RelationRoutes ==
    \A ri \in DOMAIN resources :
        LET prototype == args.prototypes[ri]
        IN  /\ ReadAndReplaceRoutes(ri, prototype)
            /\ \A rel \in Declared(prototype) :
                  IF prototype.editToMany THEN HasEditRoutes(ri, rel) ELSE NoEditRoute(ri, rel)

\* C20 amended: POST and DELETE are registered for a declared relationship
\* exactly when the prototype supports to-many edit and the relationship's
\* name is its own plural (a to-many relationship); a relationship with a
\* singular name gets none.
C20_RelationRoutesToManyOnly ==
    \A ri \in DOMAIN resources :
        LET prototype == args.prototypes[ri]
        IN  /\ ReadAndReplaceRoutes(ri, prototype)
            /\ \A rel \in Declared(prototype) :
                  IF prototype.editToMany /\ rel.Name = Pluralize(rel.Name)
                  THEN HasEditRoutes(ri, rel)
                  ELSE NoEditRoute(ri, rel)

\* A prototype with to-many edit support declaring author and comments is
\* registered second: comments has POST and DELETE, author has the two GETs
\* and PATCH only.
C20_Witness ==
    /\ Len(resources) = 2
    /\ args.prototypes[2].editToMany
    /\ Declared(args.prototypes[2])
          = {Reference("author", "users"), Reference("comments", "comments")}
    /\ HasEditRoutes(2, Reference("comments", "comments"))
    /\ NoEditRoute(2, Reference("author", "users"))
    /\ HasRoute("PATCH", 2, "relationships", Reference("author", "users"), "replaceRelation")

----------------------------------------------------------------------------
\* Properties of the whole dispatcher, checked under Spec.

\* C21: an OPTIONS request on a registered resource answers 204 with no body
\* and no backend call; Allow is exactly "GET,POST,PATCH,OPTIONS" on the
\* collection path and "GET,PATCH,DELETE,OPTIONS" on the item path, whatever
\* optional capabilities the backend implements.
C21_OptionsFixedAllow ==
    /\ \A ri \in DOMAIN resources :
          /\ Route("OPTIONS", Path(resources[ri].name, "collection", ""),
                   "optionsCollection", ri, NoReference) \in routes
          /\ Route("OPTIONS", Path(resources[ri].name, "item", ""),
                   "optionsItem", ri, NoReference) \in routes
    /\ (Answered("optionsCollection") \/ Answered("optionsItem")) =>
          /\ ~panicked
          /\ err = NoErr
          /\ w.status = <<StatusNoContent>>
          /\ w.body = NoBody
          /\ w.header.ContentType = ""
          /\ calls = <<>>
          /\ w.header.Allow = IF req.route = "optionsCollection"
                              THEN "GET,POST,PATCH,OPTIONS"
                              ELSE "GET,PATCH,DELETE,OPTIONS"

\* OPTIONS /v1/tags, whose backend has neither FindAll nor PaginatedFindAll,
\* answered 204 with the collection's Allow value.
C21_Witness ==
    /\ Answered("optionsCollection")
    /\ resources[req.res].source = {}
    /\ w.status = <<StatusNoContent>>
    /\ w.header.Allow = "GET,POST,PATCH,OPTIONS"

\* The positions in the call log of the calls of a backend operation.
CallsOf(ops) == {i \in DOMAIN calls : calls[i].op \in ops}

\* C23: in the handling of one request each backend operation is invoked at
\* most once (FindAll and PaginatedFindAll at most once between them), and
\* after a backend call that returned an error no further backend operation
\* is invoked.
C23_NoRetry ==
    pc = "done" =>
        /\ \A op \in BackendOps : Cardinality(CallsOf({op})) <= 1
        /\ Cardinality(CallsOf({"FindAll", "PaginatedFindAll"})) <= 1
        /\ \A i \in CallsOf(BackendOps) :
              calls[i].out.err # NoErr => \A j \in CallsOf(BackendOps) : j <= i

\* POST /v1/posts whose Create returned an error: Create is the only call,
\* FindOne is not invoked and the error is answered.
C23_Witness ==
    /\ Answered("create")
    /\ Len(calls) = 1
    /\ calls[1].op = "Create"
    /\ calls[1].out.err # NoErr
    /\ err = calls[1].out.err

\* A relationship PATCH, POST or DELETE that reached the backend's Update.
RelationUpdated ==
    /\ pc = "done"
    /\ req.route \in {"replaceRelation", "addToMany", "deleteToMany"}
    /\ CallsOf({"Update"}) # {}

\* C24: in the replace-relationship, add-to-many and delete-to-many handlers
\* the object passed to the backend's Update is the fetched object with the
\* relationship change that was applied to the edit object, for struct
\* resources as for pointer resources; the object FindOne returned is edited
\* only through a copy.
C24_UpdateCarriesEdit ==
    RelationUpdated =>
        LET u == CHOOSE i \in CallsOf({"Update"}) : TRUE
            oldObj == calls[1].out.val[1]
        IN  /\ calls[1].op = "FindOne"
            /\ calls[u - 1].op \in EditOps
            /\ calls[u].arg = <<oldObj>> \o calls[u - 1].arg
            /\ getRelationUpdateObjects(oldObj).editObj = Pointer(oldObj)

\* C25: on every route and for every outcome of the backend and codec calls,
\* a request that has been handled has exactly one status written: the
\* handler's own when it returned no error, the one handleError wrote for
\* the error returned otherwise; none has two and none has no status.
C25_ExactlyOneStatus ==
    pc = "done" =>
        /\ Len(w.status) = 1
        /\ err # NoErr =>
              /\ w.status = <<StatusOf(err)>>
              /\ w.body.kind = "error"
        /\ err = NoErr =>
              w.status[1] \in {StatusOK, StatusCreated, StatusNoContent, StatusNotFound}

----------------------------------------------------------------------------
\* Properties of concurrent requests, checked under SpecConcurrent.

\* The addresses a goroutine holds.
Held(g) == {threads[g].request, threads[g].body, threads[g].copy} \ {0}

\* The Request a handler derives from its own request.
OwnRequest(r) ==
    IF r.route = "linked" /\ linkedResource(resources, r.relation) # 0
    THEN linkedRequest(resources[r.res], r)
    ELSE buildRequest(r)

\* The object a relationship POST hands to Update, derived from its own
\* request and the object it fetched.
OwnUpdate(t) ==
    UpdateArg(getRelationUpdateObjects(t.oldObj),
              Edit("AddToManyIDs", t.req.relation.Name, CollectIDs(t.req.body.entries).ids))

\* C22: under any interleaving of concurrently handled requests the registry
\* stays as registration built it, no two requests hold the same Request
\* value, decoded body or working copy, what each holds is derived from its
\* own request, and every backend call receives the parameters of the
\* request it is made for (for a linked-collection GET, with its own
\* <name>ID filter).
C22_RequestsAreIsolated ==
    /\ resources = Registry
    /\ routes = RouteTable
    /\ \A g \in Goroutines :
          LET t == threads[g]
          IN  /\ \A h \in Goroutines \ {g} : Held(g) \cap Held(h) = {}
              /\ t.pc \in {"filtered", "fetched", "decoded", "copied", "edited"} =>
                    heap[t.request] = OwnRequest(t.req)
              /\ t.body # 0 => heap[t.body] = t.req.body
              /\ t.copy # 0 => heap[t.copy].of = t.oldObj
              /\ \A i \in DOMAIN t.calls :
                    /\ t.calls[i].request = OwnRequest(t.req)
                    /\ t.calls[i].op = "FindOne" => t.calls[i].arg = <<t.req.id>>
                    /\ t.calls[i].op = "Update" => t.calls[i].arg = OwnUpdate(t)

\* Two linked-collection GETs on different posts served at the same time:
\* g2 built its Request after g1 did, and each backend call was handed the
\* filter of its own request.
C22_Witness ==
    /\ threads["g1"].pc = "done"
    /\ threads["g2"].pc = "done"
    /\ threads["g1"].req.route = "linked"
    /\ threads["g2"].req.route = "linked"
    /\ threads["g1"].req.id = "1"
    /\ threads["g2"].req.id = "2"
    /\ threads["g1"].request = 1
    /\ threads["g2"].request = 2
    /\ Len(threads["g1"].calls) = 1
    /\ Len(threads["g2"].calls) = 1
    /\ threads["g1"].calls[1].request.QueryParams["postsID"] = <<"1">>
    /\ threads["g2"].calls[1].request.QueryParams["postsID"] = <<"2">>

====
